---- MODULE Spec2Model ----
(***************************************************************************)
(* A model of the leaderboard backend: the scores table with its           *)
(* best-score upsert and change trigger, the service layer on top of it,   *)
(* the LISTEN/NOTIFY listener, and the gRPC streaming fan-out.             *)
(*                                                                         *)
(* Player names are sequences of code units (naturals), compared the way   *)
(* ORDER BY player_name compares text: lexicographically.                  *)
(***************************************************************************)
EXTENDS Integers, Sequences, FiniteSets, TLC

(***************************************************************************)
(* Bounds of the model.                                                    *)
(***************************************************************************)
\* scores submitted are drawn from -1 .. MaxScore
MaxScore == 1
\* the database clock now() runs over 0 .. MaxNow
MaxNow == 1
\* at most MaxCommits change notifications reach the listener's connection
MaxCommits == 3
\* capacity of the listener's change channel (100 in the code)
ChangeChanCap == 1
\* capacity of a subscriber's update channel (50 in the code)
MailboxCap == 2
\* capacity of the listener's error channel (10 in the code)
ErrChanCap == 1
\* the client's reconnect timers that may be pending together
MaxTimers == 2
\* the statements run one after the other, each at a later time
MaxClock == 3

(***************************************************************************)
(* Program constants.                                                      *)
(***************************************************************************)
MaxPlayerNameLength == 20
MinPlayerNameLength == 1
\* listen(): backoff := time.Second, maxBackoff := time.Minute (in seconds)
InitialBackoff == 1
MaxBackoff == 60
\* config.Load: DEFAULT_LIMIT, MAX_LIMIT
DefaultLimit == 10
MaxLimit == 100
\* main.gd: var reconnect_delay: float = 2.0, MAX_RECONNECT_DELAY (seconds)
InitialReconnectDelay == 2
MAX_RECONNECT_DELAY == 30
\* main.gd: request.set_initial_limit(5), leaderboard.resize(5)
DisplayLimit == 5

\* three names: "A", "AB", "B" (a proper prefix sorts first)
PlayerA == <<1>>
PlayerAB == <<1, 2>>
PlayerB == <<2>>
Players == {PlayerA, PlayerAB, PlayerB}
ScoreInputs == -1 .. MaxScore

\* the processes that call the service concurrently
Callers == {"c1", "c2"}
\* the player the concurrent service calls contend on
SvcPlayers == {PlayerA}

VARIABLES
    scores,      \* the scores table: a set of rows
    now,         \* the database clock
    calls,       \* per caller: the service call in flight and its locals
    lastOp,      \* the last completed statement or call and what it returned
    submitted,   \* per player: the scores written into its current row
    pgQueue,     \* notifications pending on the listener's LISTEN connection
    delivered,   \* how many notifications have reached that connection
    lis,         \* the listener goroutine: its position, backoff and parsed change,
                 \* and who was registered when it closed its channels
    lctx,        \* whether the server's root context is cancelled
    changeChan,  \* Listener.changeChan
    chanClosed,  \* whether changeChan is closed
    errChan,     \* Listener.errChan
    errClosed,   \* whether errChan is closed
    bc,          \* the broadcastNotifications goroutine
    mu,          \* Server.mu
    subscribers, \* Server.subscribers
    mailbox,     \* per stream: the contents of its updateChan
    mboxClosed,  \* per stream: whether its updateChan is closed
    streams,     \* per stream: the StreamLeaderboard handler's position
    sent,        \* per stream: the messages sent to the client
    bread,       \* the changes the broadcaster has read, in order
    dropped,     \* the changes dropped, by where they were dropped
    client       \* the Godot client: its list, its delay and its timers

notifVars == <<pgQueue, delivered>>
lisVars == <<lis, changeChan, chanClosed, errChan, errClosed>>
hubVars == <<bc, mu, subscribers, mailbox, mboxClosed, streams, sent, bread>>
storeVars == <<scores, now, calls, lastOp, submitted>>
vars == <<scores, now, calls, lastOp, submitted, pgQueue, delivered,
          lis, lctx, changeChan, chanClosed, errChan, errClosed, bc, mu,
          subscribers, mailbox, mboxClosed, streams, sent, bread, dropped, client>>

Max(a, b) == IF a > b THEN a ELSE b
Min(a, b) == IF a < b THEN a ELSE b

(***************************************************************************)
(* The table and its constraints.                                          *)
(***************************************************************************)
Row(p, s, t) == [player_name |-> p, score |-> s, updated_at |-> t]

\* CHECK (score >= 0), CHECK (char_length(player_name) <= 20 AND > 0)
CheckConstraints(row) ==
    /\ row.score >= 0
    /\ Len(row.player_name) <= MaxPlayerNameLength
    /\ Len(row.player_name) > 0

\* the rows a WHERE player_name = $1 selects
RowsOf(tbl, p) == {r \in tbl : r.player_name = p}

\* a last-write-wins upsert keeps the submitted score
GreatestLastWins(a, b) == a

GREATEST(a, b) == IF a >= b THEN a ELSE b

(***************************************************************************)
(* The trigger notify_score_change: the payloads one row event publishes.  *)
(* A payload is the JSON text json_build_object produces: an object with   *)
(* its members in order.                                                   *)
(***************************************************************************)
JsonBuildObject(p, s, op) ==
    [json |-> "object",
     members |-> << <<"player_name", p>>, <<"score", s>> , <<"op", op>> >>]

\* a trigger that publishes on every UPDATE, changed or not
NotifyEveryUpdate(tgOp, old, new) ==
    IF tgOp = "DELETE"
    THEN << JsonBuildObject(old.player_name, old.score, "delete") >>
    ELSE IF tgOp = "INSERT"
    THEN << JsonBuildObject(new.player_name, new.score, "insert") >>
    ELSE << JsonBuildObject(new.player_name, new.score, "update") >>

\* the trigger of migration 0001: an UPDATE is published only when it raises
\* the score
NotifyOnlyHigher(tgOp, old, new) ==
    IF tgOp = "DELETE"
    THEN << JsonBuildObject(old.player_name, old.score, "delete") >>
    ELSE IF tgOp = "INSERT"
    THEN << JsonBuildObject(new.player_name, new.score, "insert") >>
    ELSE IF tgOp = "UPDATE"
    THEN IF new.score > old.score
         THEN << JsonBuildObject(new.player_name, new.score, "update") >>
         ELSE << >>
    ELSE << >>

\* a trigger with no DELETE branch
NotifyNoDelete(tgOp, old, new) ==
    IF tgOp = "INSERT"
    THEN << JsonBuildObject(new.player_name, new.score, "insert") >>
    ELSE IF tgOp = "UPDATE" /\ new.score # old.score
    THEN << JsonBuildObject(new.player_name, new.score, "update") >>
    ELSE << >>

NotifyScoreChange(tgOp, old, new) ==
    IF tgOp = "DELETE"
    THEN << JsonBuildObject(old.player_name, old.score, "delete") >>
    ELSE IF tgOp = "INSERT"
    THEN << JsonBuildObject(new.player_name, new.score, "insert") >>
    ELSE IF tgOp = "UPDATE"
    THEN IF new.score # old.score
         THEN << JsonBuildObject(new.player_name, new.score, "update") >>
         ELSE << >>
    ELSE << >>

(***************************************************************************)
(* The statements of queries.sql as functions of the table: each gives the *)
(* table after the statement, whether it raised an error, the rows it      *)
(* touched before and after, and what the trigger published.               *)
(***************************************************************************)
Outcome(k, p, s, tbl, err, old, new, ev) ==
    [kind |-> k, player |-> p, score |-> s, table |-> tbl, err |-> err,
     old |-> old, new |-> new, emitted |-> ev]

\* DO UPDATE SET score = EXCLUDED.score: the submitted row overwrites
ConflictOverwrite(existing, excluded, t) == excluded

\* an upsert that stamps the row every time
ConflictUpdateTouch(existing, excluded, t) ==
    Row(existing.player_name, GREATEST(excluded.score, existing.score), t)

\* the row ON CONFLICT DO UPDATE leaves for an existing row
ConflictUpdate(existing, excluded, t) ==
    Row(existing.player_name,
        GREATEST(excluded.score, existing.score),
        IF excluded.score > existing.score THEN t ELSE existing.updated_at)

UpsertScoreStmt(tbl, p, s, t) ==
    LET excluded == Row(p, s, t)
        conflict == RowsOf(tbl, p)
    IN  IF ~CheckConstraints(excluded)
        THEN Outcome("upsert", p, s, tbl, TRUE, conflict, conflict, << >>)
        ELSE IF conflict = {}
        THEN Outcome("upsert", p, s, tbl \cup {excluded}, FALSE, {}, {excluded},
                     NotifyScoreChange("INSERT", excluded, excluded))
        ELSE LET existing == CHOOSE r \in conflict : TRUE
                 updated == ConflictUpdate(existing, excluded, t)
             IN  Outcome("upsert", p, s, (tbl \ {existing}) \cup {updated}, FALSE,
                         {existing}, {updated},
                         NotifyScoreChange("UPDATE", existing, updated))

RECURSIVE DeleteEvents(_)
DeleteEvents(rows) ==
    IF rows = {} THEN << >>
    ELSE LET r == CHOOSE x \in rows : TRUE
         IN  NotifyScoreChange("DELETE", r, r) \o DeleteEvents(rows \ {r})

\* a DELETE whose WHERE clause is missing
DeleteEveryRowStmt(tbl, p) ==
    Outcome("delete", p, 0, {}, FALSE, RowsOf(tbl, p), {}, DeleteEvents(RowsOf(tbl, p)))

DeleteScoreStmt(tbl, p) ==
    LET hit == RowsOf(tbl, p)
    IN  Outcome("delete", p, 0, tbl \ hit, FALSE, hit, {}, DeleteEvents(hit))

\* UPDATE scores SET score = v WHERE player_name = p (an operator's direct write)
AdminUpdateStmt(tbl, p, v) ==
    LET hit == RowsOf(tbl, p)
    IN  IF hit = {}
        THEN Outcome("update", p, v, tbl, FALSE, {}, {}, << >>)
        ELSE LET existing == CHOOSE r \in hit : TRUE
                 updated == Row(p, v, existing.updated_at)
             IN  IF ~CheckConstraints(updated)
                 THEN Outcome("update", p, v, tbl, TRUE, hit, hit, << >>)
                 ELSE Outcome("update", p, v, (tbl \ {existing}) \cup {updated}, FALSE,
                              hit, {updated},
                              NotifyScoreChange("UPDATE", existing, updated))

(***************************************************************************)
(* The read queries of queries.sql.                                        *)
(***************************************************************************)
\* text comparison a < b, code unit by code unit
RECURSIVE LexLess(_, _)
LexLess(a, b) ==
    IF b = << >> THEN FALSE
    ELSE IF a = << >> THEN TRUE
    ELSE IF Head(a) # Head(b) THEN Head(a) < Head(b)
    ELSE LexLess(Tail(a), Tail(b))

\* ORDER BY score DESC, player_name DESC
OrderBeforeNameDesc(r1, r2) ==
    \/ r1.score > r2.score
    \/ r1.score = r2.score /\ LexLess(r2.player_name, r1.player_name)

\* ORDER BY score DESC, player_name ASC: r1 sorts strictly before r2
OrderBefore(r1, r2) ==
    \/ r1.score > r2.score
    \/ r1.score = r2.score /\ LexLess(r1.player_name, r2.player_name)

RECURSIVE OrderBy(_)
OrderBy(rows) ==
    IF rows = {} THEN << >>
    ELSE LET first == CHOOSE r \in rows : \A q \in rows : ~OrderBefore(q, r)
         IN  <<first>> \o OrderBy(rows \ {first})

\* SELECT ... ORDER BY score DESC, player_name ASC LIMIT $1 OFFSET $2
GetTopScoresQuery(tbl, limit, offset) ==
    LET sorted == OrderBy(tbl)
        last == IF offset + limit < Len(sorted) THEN offset + limit ELSE Len(sorted)
    IN  SubSeq(sorted, offset + 1, last)

\* SELECT ... WHERE player_name = $1 (:one): no row is pgx.ErrNoRows
GetPlayerScoreQuery(tbl, p) == RowsOf(tbl, p)

\* a rank that counts only the strictly better scores
RankWithoutTieBreak(tbl, p) ==
    1 + Cardinality({s1 \in tbl : \E s2 \in RowsOf(tbl, p) : s1.score > s2.score})

\* SELECT 1 + COUNT(*) ...: the scalar subquery is NULL for an absent player,
\* and a comparison with NULL selects no row
GetPlayerRankQuery(tbl, p) ==
    LET sub == RowsOf(tbl, p)
    IN  1 + Cardinality({s1 \in tbl :
              \E s2 \in sub :
                  \/ s1.score > s2.score
                  \/ s1.score = s2.score /\ LexLess(s1.player_name, p)})

(***************************************************************************)
(* State.                                                                  *)
(***************************************************************************)
NoPlayer == << >>
Idle == [pc |-> "idle", player |-> NoPlayer, score |-> 0,
         hadScore |-> FALSE, oldScore |-> 0, repeat |-> FALSE]

NoOp == [op |-> "none", by |-> "none", player |-> NoPlayer, score |-> 0,
         err |-> "", applied |-> FALSE, old |-> {}, new |-> {},
         emitted |-> << >>, repeat |-> FALSE, hadScore |-> FALSE, rank |-> 0,
     args |-> << >>, rows |-> << >>]

\* what a completed statement leaves in lastOp
Completed(op, by, o, err, applied, repeat, had) ==
    [op |-> op, by |-> by, player |-> o.player, score |-> o.score,
     err |-> err, applied |-> applied, old |-> o.old, new |-> o.new,
     emitted |-> o.emitted, repeat |-> repeat, hadScore |-> had, rank |-> 0,
     args |-> << >>, rows |-> << >>]

\* what a stream handler returns: nil is the status OK
NoReturn == [code |-> "", msg |-> ""]
ReturnNil == [code |-> "OK", msg |-> ""]
\* a status that loses its code
StatusErrorOK(code, msg) == [code |-> "OK", msg |-> msg]
\* status.Error(code, msg)
StatusError(code, msg) == [code |-> code, msg |-> msg]

\* the streams clients open
Subs == {"s1", "s2"}
\* where a change can be lost on its way to a client
DropPlaces == {"conn", "chan", "parse", "op"} \cup Subs

\* what a commit did to its row, as a client should come to see it
NoTruth == [kind |-> "", player |-> NoPlayer, score |-> 0]
Truth(o) ==
    IF o.new = {} THEN [kind |-> "DELETE", player |-> o.player, score |-> 0]
    ELSE [kind |-> "UPSERT", player |-> o.player,
          score |-> (CHOOSE r \in o.new : TRUE).score]

\* the zero ScoreChange and the zero LeaderboardUpdate; tag and truth are
\* history fields that travel with a change: the number of the commit it
\* comes from and what that commit did
NoChange == [PlayerName |-> NoPlayer, Score |-> 0, Op |-> "", tag |-> 0,
             truth |-> NoTruth]
NoUpdate == [kind |-> "", snapshot |-> << >>, changed |-> << >>, tag |-> 0,
             truth |-> NoTruth]

\* pg_notify at commit: the payloads reach the connection that has run LISTEN
\* and is still held; each is numbered in commit order
RECURSIVE Numbered(_, _, _)
Numbered(ev, n, truth) ==
    IF ev = << >> THEN << >>
    ELSE <<[payload |-> Head(ev), tag |-> n + 1, truth |-> truth]>>
         \o Numbered(Tail(ev), n + 1, truth)

Listening == lis.pc \in {"wait", "send"}

Publish(o) ==
    IF Listening /\ o.emitted # << >>
    THEN /\ pgQueue' = pgQueue \o Numbered(o.emitted, delivered, Truth(o))
         /\ delivered' = delivered + Len(o.emitted)
    ELSE UNCHANGED notifVars

Init ==
    /\ scores = {}
    /\ now = 0
    /\ calls = [c \in Callers |-> Idle]
    /\ lastOp = NoOp
    /\ submitted = [p \in Players |-> {}]
    /\ pgQueue = << >>
    /\ delivered = 0
    /\ lis = [pc |-> "loop", backoff |-> InitialBackoff, change |-> NoChange,
              atClose |-> {}]
    /\ lctx = FALSE
    /\ changeChan = << >>
    /\ chanClosed = FALSE
    /\ errChan = << >>
    /\ errClosed = FALSE
    /\ bc = [pc |-> "recv", update |-> NoUpdate]
    /\ mu = [readers |-> 0, writer |-> "none"]
    /\ subscribers = {}
    /\ mailbox = [s \in Subs |-> << >>]
    /\ mboxClosed = [s \in Subs |-> FALSE]
    /\ streams = [s \in Subs |-> [pc |-> "new", ctxDone |-> FALSE, ret |-> NoReturn]]
    /\ sent = [s \in Subs |-> << >>]
    /\ bread = << >>
    /\ dropped = [w \in DropPlaces |-> {}]
    /\ client = [pc |-> "ready", leaderboard |-> << >>, is_connected |-> FALSE,
                 reconnect_delay |-> InitialReconnectDelay, stream_id |-> 0,
                 timers |-> << >>]

\* now() advances
Tick ==
    /\ now < MaxNow
    /\ now' = now + 1
    /\ UNCHANGED <<scores, calls, lastOp, submitted>>
    /\ UNCHANGED <<notifVars, lisVars, lctx, hubVars, dropped, client>>

\* the scores written into p's current row, after a statement's outcome o
Written(o) ==
    IF o.err \/ o.player \notin Players THEN submitted
    ELSE IF o.kind = "upsert"
    THEN [submitted EXCEPT ![o.player] = @ \cup {o.score}]
    ELSE IF o.kind = "delete"
    THEN [submitted EXCEPT ![o.player] = {}]
    ELSE IF o.old = {} THEN submitted
    ELSE [submitted EXCEPT ![o.player] = {o.score}]

\* a write to player p ends every other caller's "nothing written since I read"
Disturb(by, p) ==
    [c \in Callers |->
        IF c # by /\ calls[c].player = p
        THEN [calls[c] EXCEPT !.repeat = FALSE]
        ELSE calls[c]]

(***************************************************************************)
(* Statements run directly against the store (store.Queries).              *)
(***************************************************************************)
StoreUpsertScore(p, s) ==
    LET o == UpsertScoreStmt(scores, p, s, now)
    IN  /\ scores' = o.table
        /\ lastOp' = Completed("UpsertScore", "db", o,
                               IF o.err THEN "constraint" ELSE "", FALSE, FALSE, FALSE)
        /\ calls' = Disturb("db", p)
        /\ submitted' = Written(o)
        /\ Publish(o)
        /\ UNCHANGED <<now, lisVars, lctx, hubVars, dropped, client>>

StoreDeleteScore(p) ==
    LET o == DeleteScoreStmt(scores, p)
    IN  /\ scores' = o.table
        /\ lastOp' = Completed("DeleteScore", "db", o, "", FALSE, FALSE, FALSE)
        /\ calls' = Disturb("db", p)
        /\ submitted' = Written(o)
        /\ Publish(o)
        /\ UNCHANGED <<now, lisVars, lctx, hubVars, dropped, client>>

AdminUpdate(p, v) ==
    LET o == AdminUpdateStmt(scores, p, v)
    IN  /\ scores' = o.table
        /\ lastOp' = Completed("AdminUpdate", "db", o,
                               IF o.err THEN "constraint" ELSE "", FALSE, FALSE, FALSE)
        /\ calls' = Disturb("db", p)
        /\ submitted' = Written(o)
        /\ Publish(o)
        /\ UNCHANGED <<now, lisVars, lctx, hubVars, dropped, client>>

\* UpsertScore run after the statements before it have committed: its now()
\* is later than theirs
ClockUpsertScore(p, s) ==
    /\ now < MaxClock
    /\ now' = now + 1
    /\ LET o == UpsertScoreStmt(scores, p, s, now + 1)
       IN  /\ scores' = o.table
           /\ lastOp' = Completed("UpsertScore", "db", o,
                                  IF o.err THEN "constraint" ELSE "", FALSE, FALSE, FALSE)
           /\ calls' = Disturb("db", p)
           /\ submitted' = Written(o)
           /\ Publish(o)
           /\ UNCHANGED <<lisVars, lctx, hubVars, dropped, client>>

\* a sequence of upserts
NextClock == \E p \in Players, s \in ScoreInputs : ClockUpsertScore(p, s)

SpecClock == Init /\ [][NextClock]_vars

NextStore ==
    \/ \E p \in Players, s \in ScoreInputs : StoreUpsertScore(p, s)
    \/ \E p \in Players : StoreDeleteScore(p)
    \/ \E p \in Players, v \in ScoreInputs : AdminUpdate(p, v)

SpecStore == Init /\ [][NextStore]_vars

(***************************************************************************)
(* The service layer (service.go).  A call that touches the store twice    *)
(* takes two steps; other callers' statements may run in between.          *)
(***************************************************************************)
\* a name of 21 code units
LongName == [i \in 1 .. MaxPlayerNameLength + 1 |-> 1]
SvcNameInputs == SvcPlayers \cup {NoPlayer, LongName}

\* a length check that turns away the longest allowed name
validatePlayerNameExclusive(name) ==
    ~(Len(name) < MinPlayerNameLength \/ Len(name) >= MaxPlayerNameLength)

validatePlayerName(name) ==
    ~(Len(name) < MinPlayerNameLength \/ Len(name) > MaxPlayerNameLength)

validateScore(score) == ~(score < 0)

\* a call that returns an error without a statement having committed
Failed(op, by, p, s, err) ==
    [op |-> op, by |-> by, player |-> p, score |-> s, err |-> err,
     applied |-> FALSE, old |-> {}, new |-> {}, emitted |-> << >>,
     repeat |-> FALSE, hadScore |-> FALSE, rank |-> 0,
     args |-> << >>, rows |-> << >>]

\* SubmitScore up to and including the read of the current score
SubmitScoreBegin(c, p, s, dbOk) ==
    /\ calls[c].pc = "idle"
    /\ IF ~validatePlayerName(p)
       THEN /\ lastOp' = Failed("SubmitScore", c, p, s, "ErrInvalidPlayerName")
            /\ UNCHANGED calls
       ELSE IF ~validateScore(s)
       THEN /\ lastOp' = Failed("SubmitScore", c, p, s, "ErrInvalidScore")
            /\ UNCHANGED calls
       ELSE IF ~dbOk
       THEN /\ lastOp' = Failed("SubmitScore", c, p, s, "get current score")
            /\ UNCHANGED calls
       ELSE LET currentScore == GetPlayerScoreQuery(scores, p)
            IN  /\ calls' = [calls EXCEPT ![c] =
                       [pc |-> "upsert", player |-> p, score |-> s,
                        hadScore |-> currentScore # {},
                        oldScore |-> IF currentScore = {} THEN 0
                                     ELSE (CHOOSE r \in currentScore : TRUE).score,
                        repeat |-> /\ lastOp.op = "SubmitScore"
                                   /\ lastOp.err = ""
                                   /\ lastOp.player = p
                                   /\ lastOp.score = s]]
                /\ UNCHANGED lastOp
    /\ UNCHANGED <<scores, now, submitted>>
    /\ UNCHANGED <<notifVars, lisVars, lctx, hubVars, dropped, client>>

\* applied := !hadScore || result.Score > oldScore
Applied(hadScore, oldScore, resultScore) == ~hadScore \/ resultScore > oldScore

\* SubmitScore from the upsert to its return
SubmitScoreUpsert(c, dbOk) ==
    /\ calls[c].pc = "upsert"
    /\ LET o == UpsertScoreStmt(scores, calls[c].player, calls[c].score, now)
       IN  IF ~dbOk \/ o.err
           THEN /\ lastOp' = Failed("SubmitScore", c, calls[c].player,
                                    calls[c].score, "upsert score")
                /\ calls' = [calls EXCEPT ![c] = Idle]
                /\ UNCHANGED <<scores, submitted, notifVars>>
           ELSE LET result == CHOOSE r \in o.new : TRUE
                IN  /\ scores' = o.table
                    /\ lastOp' = Completed("SubmitScore", c, o, "",
                                   Applied(calls[c].hadScore, calls[c].oldScore,
                                           result.score),
                                   calls[c].repeat, calls[c].hadScore)
                    /\ calls' = [Disturb(c, calls[c].player) EXCEPT ![c] = Idle]
                    /\ submitted' = Written(o)
                    /\ Publish(o)
    /\ UNCHANGED <<now, lisVars, lctx, hubVars, dropped, client>>

\* Service.DeleteScore
ServiceDeleteScore(c, p, dbOk) ==
    /\ calls[c].pc = "idle"
    /\ IF ~validatePlayerName(p)
       THEN /\ lastOp' = Failed("DeleteScore", c, p, 0, "ErrInvalidPlayerName")
            /\ UNCHANGED <<scores, calls, submitted, notifVars>>
       ELSE IF ~dbOk
       THEN /\ lastOp' = Failed("DeleteScore", c, p, 0, "delete score")
            /\ UNCHANGED <<scores, calls, submitted, notifVars>>
       ELSE LET o == DeleteScoreStmt(scores, p)
            IN  /\ scores' = o.table
                /\ lastOp' = Completed("DeleteScore", c, o, "", FALSE, FALSE, FALSE)
                /\ calls' = Disturb(c, p)
                /\ submitted' = Written(o)
                /\ Publish(o)
    /\ UNCHANGED <<now, lisVars, lctx, hubVars, dropped, client>>

NextService ==
    \/ Tick
    \/ \E c \in Callers, p \in SvcNameInputs, s \in ScoreInputs, dbOk \in BOOLEAN :
          SubmitScoreBegin(c, p, s, dbOk)
    \/ \E c \in Callers, dbOk \in BOOLEAN : SubmitScoreUpsert(c, dbOk)
    \/ \E c \in Callers, p \in SvcNameInputs, dbOk \in BOOLEAN :
          ServiceDeleteScore(c, p, dbOk)

SpecService == Init /\ [][NextService]_vars

\* SubmitScore and DeleteScore calls interleaved with each other and with
\* UPDATE scores SET score = v run by an administrator's session
NextEvents ==
    \/ \E c \in Callers, p \in SvcNameInputs, s \in ScoreInputs, dbOk \in BOOLEAN :
          SubmitScoreBegin(c, p, s, dbOk)
    \/ \E c \in Callers, dbOk \in BOOLEAN : SubmitScoreUpsert(c, dbOk)
    \/ \E c \in Callers, p \in SvcNameInputs, dbOk \in BOOLEAN :
          ServiceDeleteScore(c, p, dbOk)
    \/ \E p \in SvcPlayers, v \in ScoreInputs : AdminUpdate(p, v)

SpecEvents == Init /\ [][NextEvents]_vars

\* Service.GetPlayerRank up to and including GetPlayerScore
GetPlayerRankBegin(c, p, dbOk) ==
    /\ calls[c].pc = "idle"
    /\ IF ~validatePlayerName(p)
       THEN /\ lastOp' = Failed("GetPlayerRank", c, p, 0, "ErrInvalidPlayerName")
            /\ UNCHANGED calls
       ELSE IF ~dbOk
       THEN /\ lastOp' = Failed("GetPlayerRank", c, p, 0, "get player score")
            /\ UNCHANGED calls
       ELSE LET score == GetPlayerScoreQuery(scores, p)
            IN  IF score = {}
                THEN /\ lastOp' = Failed("GetPlayerRank", c, p, 0, "ErrPlayerNotFound")
                     /\ UNCHANGED calls
                ELSE /\ calls' = [calls EXCEPT ![c] =
                            [pc |-> "rank", player |-> p,
                             score |-> (CHOOSE r \in score : TRUE).score,
                             hadScore |-> TRUE,
                             oldScore |-> (CHOOSE r \in score : TRUE).score,
                             repeat |-> FALSE]]
                     /\ UNCHANGED lastOp
    /\ UNCHANGED <<scores, now, submitted>>
    /\ UNCHANGED <<notifVars, lisVars, lctx, hubVars, dropped, client>>

\* Service.GetPlayerRank from the rank query to its return
GetPlayerRankReturn(c, dbOk) ==
    /\ calls[c].pc = "rank"
    /\ lastOp' = IF ~dbOk
                 THEN Failed("GetPlayerRank", c, calls[c].player, 0, "get player rank")
                 ELSE [Failed("GetPlayerRank", c, calls[c].player, calls[c].score, "")
                          EXCEPT !.rank = GetPlayerRankQuery(scores, calls[c].player),
                                 !.hadScore = TRUE]
    /\ calls' = [calls EXCEPT ![c] = Idle]
    /\ UNCHANGED <<scores, now, submitted>>
    /\ UNCHANGED <<notifVars, lisVars, lctx, hubVars, dropped, client>>

\* the calls of one client with names of every length class
Name20 == [i \in 1 .. MaxPlayerNameLength |-> 1]
ValNameInputs == {NoPlayer, PlayerA, Name20, LongName}
ValCallers == {"c1"}

NextValidation ==
    \/ \E c \in ValCallers, p \in ValNameInputs, s \in ScoreInputs, dbOk \in BOOLEAN :
          SubmitScoreBegin(c, p, s, dbOk)
    \/ \E c \in ValCallers, dbOk \in BOOLEAN : SubmitScoreUpsert(c, dbOk)
    \/ \E c \in ValCallers, p \in ValNameInputs, dbOk \in BOOLEAN :
          ServiceDeleteScore(c, p, dbOk)
    \/ \E c \in ValCallers, p \in ValNameInputs, dbOk \in BOOLEAN :
          GetPlayerRankBegin(c, p, dbOk)
    \/ \E c \in ValCallers, dbOk \in BOOLEAN : GetPlayerRankReturn(c, dbOk)

SpecValidation == Init /\ [][NextValidation]_vars

\* rank requests while other sessions write and delete rows
NextRank ==
    \/ \E p \in Players, s \in 0 .. MaxScore : StoreUpsertScore(p, s)
    \/ \E p \in Players : StoreDeleteScore(p)
    \/ \E c \in ValCallers, p \in Players, dbOk \in BOOLEAN :
          GetPlayerRankBegin(c, p, dbOk)
    \/ \E c \in ValCallers, dbOk \in BOOLEAN : GetPlayerRankReturn(c, dbOk)

SpecRank == Init /\ [][NextRank]_vars

(***************************************************************************)
(* The listener (notify.Listener.listen).                                  *)
(***************************************************************************)
\* the member of a JSON object a struct field is filled from, or its zero
JsonMember(members, key, zero) ==
    IF \E i \in 1 .. Len(members) : members[i][1] = key
    THEN members[CHOOSE i \in 1 .. Len(members) : members[i][1] = key][2]
    ELSE zero

\* a ScoreChange whose Score field has no matching member in the payload
UnmarshalNoScore(payload) ==
    IF payload.json # "object"
    THEN [err |-> TRUE, PlayerName |-> NoPlayer, Score |-> 0, Op |-> ""]
    ELSE [err |-> FALSE,
          PlayerName |-> JsonMember(payload.members, "player_name", NoPlayer),
          Score |-> JsonMember(payload.members, "points", 0),
          Op |-> JsonMember(payload.members, "op", "")]

\* json.Unmarshal([]byte(notification.Payload), &change)
Unmarshal(payload) ==
    IF payload.json # "object"
    THEN [err |-> TRUE, PlayerName |-> NoPlayer, Score |-> 0, Op |-> ""]
    ELSE [err |-> FALSE,
          PlayerName |-> JsonMember(payload.members, "player_name", NoPlayer),
          Score |-> JsonMember(payload.members, "score", 0),
          Op |-> JsonMember(payload.members, "op", "")]

\* a send on a buffered channel that puts the value in front of those waiting
ChanPutFront(q, v) == <<v>> \o q

\* a buffered channel send puts the value at the back
ChanPut(q, v) == Append(q, v)

\* sendError: a non-blocking send on errChan
SendError(q, err) == IF Len(q) < ErrChanCap THEN ChanPut(q, err) ELSE q

\* a doubling with no ceiling
NextBackoffUncapped(b) == b * 2

\* min(backoff*2, maxBackoff)
NextBackoff(b) == IF b * 2 < MaxBackoff THEN b * 2 ELSE MaxBackoff

Tags(q) == {q[i].tag : i \in 1 .. Len(q)}

\* a listener that returns on a failure
RetryGiveUp(l) == [l EXCEPT !.pc = "returned"]

\* after a failed Acquire or LISTEN: time.Sleep(backoff) comes next, then
\* continue
Retry(l) == [l EXCEPT !.pc = "sleep"]

\* top of the outer loop: stop on a cancelled context, else acquire a connection
ListenerLoop(ok) ==
    /\ lis.pc = "loop"
    /\ IF lctx
       THEN /\ chanClosed' = TRUE
            /\ errClosed' = TRUE
            /\ lis' = [lis EXCEPT !.pc = "stopped", !.atClose = subscribers]
            /\ UNCHANGED errChan
       ELSE IF ok
       THEN /\ lis' = [lis EXCEPT !.pc = "acquired"]
            /\ UNCHANGED <<chanClosed, errClosed, errChan>>
       ELSE /\ errChan' = SendError(errChan, "acquire connection")
            /\ lis' = Retry(lis)
            /\ UNCHANGED <<chanClosed, errClosed>>
    /\ UNCHANGED <<storeVars, notifVars, lctx, changeChan, hubVars, dropped, client>>

\* time.Sleep(backoff); backoff = min(backoff*2, maxBackoff); continue
ListenerSleep ==
    /\ lis.pc = "sleep"
    /\ lis' = [lis EXCEPT !.pc = "loop", !.backoff = NextBackoff(@)]
    /\ UNCHANGED <<storeVars, notifVars, lctx, changeChan, chanClosed, errChan,
                   errClosed, hubVars, dropped, client>>

\* conn.Exec(ctx, "LISTEN scores_changes")
ListenerListen(ok) ==
    /\ lis.pc = "acquired"
    /\ IF ok /\ ~lctx
       THEN /\ lis' = [lis EXCEPT !.pc = "wait", !.backoff = InitialBackoff]
            /\ UNCHANGED errChan
       ELSE /\ errChan' = SendError(errChan, "LISTEN command")
            /\ lis' = Retry(lis)
    /\ UNCHANGED <<storeVars, notifVars, lctx, changeChan, chanClosed, errClosed,
                   hubVars, dropped, client>>

\* a listener that gives up its connection on a payload it cannot parse
OnParseErrorReconnect(l) == [l EXCEPT !.pc = "loop"]

\* the parse-failure branch: log, then continue with the inner loop
OnParseError(l) == l

\* WaitForNotification returns a notification, which is parsed
ListenerReceive ==
    /\ lis.pc = "wait"
    /\ pgQueue # << >>
    /\ LET n == Head(pgQueue)
           parsed == Unmarshal(n.payload)
       IN  /\ pgQueue' = Tail(pgQueue)
           /\ IF parsed.err
              THEN /\ lis' = OnParseError(lis)
                   /\ dropped' = [dropped EXCEPT !["parse"] = @ \cup {n.tag}]
              ELSE /\ lis' = [lis EXCEPT !.pc = "send",
                                 !.change = [PlayerName |-> parsed.PlayerName,
                                             Score |-> parsed.Score,
                                             Op |-> parsed.Op, tag |-> n.tag,
                                             truth |-> n.truth]]
                   /\ UNCHANGED dropped
    /\ UNCHANGED <<storeVars, delivered, lctx, changeChan, chanClosed,
                   errChan, errClosed, hubVars, client>>

\* WaitForNotification fails (connection lost, or context cancelled):
\* release, report, and go round the outer loop
ListenerWaitError ==
    /\ lis.pc = "wait"
    /\ pgQueue' = << >>
    /\ dropped' = [dropped EXCEPT !["conn"] = @ \cup Tags(pgQueue)]
    /\ errChan' = SendError(errChan, "wait for notification")
    /\ lis' = [lis EXCEPT !.pc = "loop"]
    /\ UNCHANGED <<storeVars, delivered, lctx, changeChan, chanClosed,
                   errClosed, hubVars, client>>

\* select { case l.changeChan <- change: ... }
ListenerForward ==
    /\ lis.pc = "send"
    /\ Len(changeChan) < ChangeChanCap
    /\ changeChan' = ChanPut(changeChan, lis.change)
    /\ lis' = [lis EXCEPT !.pc = "wait", !.change = NoChange]
    /\ UNCHANGED <<storeVars, notifVars, lctx, chanClosed, errChan, errClosed,
                   hubVars, dropped, client>>

\* a full channel that makes room by giving up its oldest change
AfterTimeoutDropOldest(q, v) == Append(Tail(q), v)

\* the channel after the timeout case ran: the new change is not in it
AfterTimeout(q, v) == q

\* select { ... case <-time.After(time.Second): ... }: the channel stayed full
\* until the timer fired
ListenerDrop ==
    /\ lis.pc = "send"
    /\ Len(changeChan) = ChangeChanCap
    /\ changeChan' = AfterTimeout(changeChan, lis.change)
    /\ dropped' = [dropped EXCEPT !["chan"] = @ \cup {lis.change.tag}]
    /\ lis' = [lis EXCEPT !.pc = "wait", !.change = NoChange]
    /\ UNCHANGED <<storeVars, notifVars, lctx, chanClosed, errChan,
                   errClosed, hubVars, client>>

\* select { ... case <-ctx.Done(): conn.Release(); return }
ListenerCancelled ==
    /\ lis.pc = "send"
    /\ lctx
    /\ pgQueue' = << >>
    /\ dropped' = [dropped EXCEPT !["conn"] = @ \cup Tags(pgQueue) \cup {lis.change.tag}]
    /\ lis' = [lis EXCEPT !.pc = "returned", !.change = NoChange]
    /\ UNCHANGED <<storeVars, delivered, lctx, changeChan, chanClosed,
                   errChan, errClosed, hubVars, client>>

\* main's goroutine: for err := range listener.Errors() { log }
MainLogError ==
    /\ errChan # << >>
    /\ errChan' = Tail(errChan)
    /\ UNCHANGED <<storeVars, notifVars, lis, lctx, changeChan, chanClosed,
                   errClosed, hubVars, dropped, client>>

\* shutdown: the gRPC server stops (stream contexts end), then cancel()
Shutdown ==
    /\ ~lctx
    /\ lctx' = TRUE
    /\ streams' = [s \in Subs |-> [streams[s] EXCEPT !.ctxDone = TRUE]]
    /\ UNCHANGED <<storeVars, notifVars, lisVars, bc, mu, subscribers, mailbox,
                   mboxClosed, sent, bread, dropped, client>>

\* run returns on a server error: its deferred cancel() runs while the gRPC
\* server has not been stopped
RunReturnsError ==
    /\ ~lctx
    /\ lctx' = TRUE
    /\ UNCHANGED <<storeVars, notifVars, lisVars, hubVars, dropped, client>>

(***************************************************************************)
(* The broadcaster (Server.broadcastNotifications, Server.broadcast).      *)
(***************************************************************************)
\* time.Format(time.RFC3339) of a timestamp
FormatRFC3339(ts) == [rfc3339 |-> ts]

\* a switch that leaves an insert with the zero Kind
KindOfInsertZero(op) ==
    IF op = "update" THEN "UPSERT"
    ELSE IF op = "insert" THEN "KIND_UNSPECIFIED"
    ELSE IF op = "delete" THEN "DELETE"
    ELSE "unknown"

\* a switch whose default case is a DELETE
KindOfDefaultDelete(op) ==
    IF op \in {"insert", "update"} THEN "UPSERT" ELSE "DELETE"

\* switch change.Op
KindOf(op) ==
    IF op \in {"insert", "update"} THEN "UPSERT"
    ELSE IF op = "delete" THEN "DELETE"
    ELSE "unknown"

\* sync.RWMutex: a goroutine blocked in mu.Lock() keeps new readers out
WriterPending == \E s \in Subs : streams[s].pc \in {"add_lock", "remove_lock"}
CanRLock == mu.writer = "none" /\ ~WriterPending
\* a write lock granted while the read lock is held
CanLockDespiteReaders == mu.writer = "none"
CanLock == mu.writer = "none" /\ mu.readers = 0
RLock(m) == [m EXCEPT !.readers = @ + 1]
\* a read lock that is never given back
RUnlockMissing(m) == m
RUnlock(m) == [m EXCEPT !.readers = @ - 1]

\* update := &pb.LeaderboardUpdate{Kind: kind, Changed: &pb.ScoreEntry{...}}
DeltaUpdate(change, t) ==
    [kind |-> KindOf(change.Op), snapshot |-> << >>,
     changed |-> <<[player_name |-> change.PlayerName, score |-> change.Score,
                    updated_at |-> FormatRFC3339(t)]>>,
     tag |-> 0, truth |-> NoTruth]

\* for change := range s.notifyListener.Changes(): one change is taken
BroadcastReceive ==
    /\ bc.pc = "recv"
    /\ changeChan # << >>
    /\ LET change == Head(changeChan)
       IN  /\ changeChan' = Tail(changeChan)
           /\ bread' = Append(bread, change.tag)
           /\ IF KindOf(change.Op) = "unknown"
              THEN UNCHANGED bc
              ELSE bc' = [bc EXCEPT !.pc = "rlock1",
                            !.update = [DeltaUpdate(change, now) EXCEPT
                                          !.tag = change.tag,
                                          !.truth = change.truth]]
           /\ dropped' = IF KindOf(change.Op) = "unknown"
                         THEN [dropped EXCEPT !["op"] = @ \cup {change.tag}]
                         ELSE dropped
    /\ UNCHANGED <<storeVars, notifVars, lis, lctx, chanClosed, errChan, errClosed,
                   mu, subscribers, mailbox, mboxClosed, streams, sent, client>>

\* the range loop ends when the channel is closed and drained
BroadcastExit ==
    /\ bc.pc = "recv"
    /\ changeChan = << >>
    /\ chanClosed
    /\ bc' = [bc EXCEPT !.pc = "exited"]
    /\ UNCHANGED <<storeVars, notifVars, lisVars, lctx, mu, subscribers, mailbox,
                   mboxClosed, streams, sent, bread, dropped, client>>

\* subscriberCount := len(s.subscribers) between s.mu.RLock() and s.mu.RUnlock()
BroadcastCount ==
    /\ bc.pc = "rlock1"
    /\ CanRLock
    /\ mu' = RUnlock(RLock(mu))
    /\ bc' = [bc EXCEPT !.pc = "rlock2"]
    /\ UNCHANGED <<storeVars, notifVars, lisVars, lctx, subscribers, mailbox,
                   mboxClosed, streams, sent, bread, dropped, client>>

\* the second s.mu.RLock(), held until broadcast returns
BroadcastRLock ==
    /\ bc.pc = "rlock2"
    /\ CanRLock
    /\ mu' = RLock(mu)
    /\ bc' = [bc EXCEPT !.pc = "fanout"]
    /\ UNCHANGED <<storeVars, notifVars, lisVars, lctx, subscribers, mailbox,
                   mboxClosed, streams, sent, bread, dropped, client>>

\* a fan-out that sends again after a send that went through
TrySendAgain(q, v) ==
    IF Len(q) + 1 < MailboxCap THEN ChanPut(ChanPut(q, v), v)
    ELSE IF Len(q) < MailboxCap THEN ChanPut(q, v)
    ELSE q

\* select { case ch <- update: ... default: ... } on one subscriber's channel
TrySend(q, v) == IF Len(q) < MailboxCap THEN ChanPut(q, v) ELSE q

\* a fan-out to every stream's mailbox, registered or not
FanoutTargetsAll(subs) == Subs

\* for ch := range s.subscribers: the mailboxes found in the registry
FanoutTargets(subs) == subs

\* what the server keeps per subscriber: the entry s.subscribers[ch] is the
\* empty struct, and the default branch of the send only writes a log line
\* that names no subscriber, so the count kept for a subscriber is none
DropCounter(s) == 0

\* for ch := range s.subscribers { non-blocking send }, then the deferred
\* s.mu.RUnlock(); a send on a closed channel panics
BroadcastFanout ==
    /\ bc.pc = "fanout"
    /\ IF \E s \in FanoutTargets(subscribers) : mboxClosed[s]
       THEN /\ bc' = [bc EXCEPT !.pc = "panic"]
            /\ UNCHANGED <<mailbox, dropped, mu>>
       ELSE /\ mailbox' = [s \in Subs |->
                             IF s \in FanoutTargets(subscribers)
                             THEN TrySend(mailbox[s], bc.update)
                             ELSE mailbox[s]]
            /\ dropped' = [w \in DropPlaces |->
                             IF w \in FanoutTargets(subscribers)
                                /\ Len(mailbox[w]) >= MailboxCap
                             THEN dropped[w] \cup {bc.update.tag}
                             ELSE dropped[w]]
            /\ mu' = RUnlock(mu)
            /\ bc' = [bc EXCEPT !.pc = "recv", !.update = NoUpdate]
    /\ UNCHANGED <<storeVars, notifVars, lisVars, lctx, subscribers,
                   mboxClosed, streams, sent, bread, client>>

(***************************************************************************)
(* A stream (Server.StreamLeaderboard).                                    *)
(***************************************************************************)
LimitInputs == {0, 1}

\* a clamp that forgets the default
ClampLimitNoDefault(v) == IF v > MaxLimit THEN MaxLimit ELSE v

\* if limit <= 0 { limit = defaultLimit }; if limit > maxLimit { limit = maxLimit }
ClampLimit(v) ==
    LET limit == IF v <= 0 THEN DefaultLimit ELSE v
    IN  IF limit > MaxLimit THEN MaxLimit ELSE limit

\* Service.GetTopScores
ServiceGetTopScores(tbl, limit, offset, dbOk) ==
    IF limit <= 0 THEN [err |-> "ErrInvalidLimit", rows |-> << >>]
    ELSE IF offset < 0 THEN [err |-> "ErrInvalidLimit", rows |-> << >>]
    ELSE IF ~dbOk THEN [err |-> "get top scores", rows |-> << >>]
    ELSE [err |-> "", rows |-> GetTopScoresQuery(tbl, limit, offset)]

\* if offset < 0 { offset = 0 }
ClampOffset(v) == IF v < 0 THEN 0 ELSE v

ScoreEntry(r) ==
    [player_name |-> r.player_name, score |-> r.score,
     updated_at |-> FormatRFC3339(r.updated_at)]

\* a snapshot that carries no entries
SnapshotUpdateEmpty(rows) ==
    [kind |-> "SNAPSHOT", snapshot |-> << >>,
     changed |-> << >>, tag |-> 0, truth |-> NoTruth]

SnapshotUpdate(rows) ==
    [kind |-> "SNAPSHOT", snapshot |-> [i \in 1 .. Len(rows) |-> ScoreEntry(rows[i])],
     changed |-> << >>, tag |-> 0, truth |-> NoTruth]

\* from the request to the sending of the snapshot: read the top, send it
StreamStart(s, initialLimit, dbOk, sendOk) ==
    /\ streams[s].pc = "new"
    /\ LET top == ServiceGetTopScores(scores, ClampLimit(initialLimit), 0,
                                      dbOk /\ ~streams[s].ctxDone)
       IN  IF top.err # ""
           THEN /\ streams' = [streams EXCEPT ![s] =
                      [pc |-> "closed", ctxDone |-> TRUE,
                       ret |-> StatusError("Internal", "failed to get initial snapshot")]]
                /\ UNCHANGED sent
           ELSE IF ~sendOk
           THEN /\ streams' = [streams EXCEPT ![s] =
                      [pc |-> "closed", ctxDone |-> TRUE,
                       ret |-> StatusError("Internal", "failed to send snapshot")]]
                /\ UNCHANGED sent
           ELSE /\ sent' = [sent EXCEPT ![s] = Append(@, SnapshotUpdate(top.rows))]
                /\ streams' = [streams EXCEPT ![s].pc = "subscribing"]
    /\ UNCHANGED <<storeVars, notifVars, lisVars, lctx, bc, mu, subscribers,
                   mailbox, mboxClosed, bread, dropped, client>>

\* the log line, make(chan, 50) and the call of addSubscriber, which reaches
\* s.mu.Lock() and from then on keeps new readers out
StreamLock(s) ==
    /\ streams[s].pc = "subscribing"
    /\ streams' = [streams EXCEPT ![s].pc = "add_lock"]
    /\ UNCHANGED <<storeVars, notifVars, lisVars, lctx, bc, mu, subscribers,
                   mailbox, mboxClosed, sent, bread, dropped, client>>

\* addSubscriber: s.mu.Lock(); s.subscribers[ch] = struct{}{}; s.mu.Unlock()
StreamAddSubscriber(s) ==
    /\ streams[s].pc = "add_lock"
    /\ CanLock
    /\ subscribers' = subscribers \cup {s}
    /\ streams' = [streams EXCEPT ![s].pc = "live"]
    /\ UNCHANGED <<storeVars, notifVars, lisVars, lctx, bc, mu, mailbox, mboxClosed,
                   sent, bread, dropped, client>>

\* case update := <-updateChan: stream.Send(update)
StreamForward(s) ==
    /\ streams[s].pc = "live"
    /\ mailbox[s] # << >>
    /\ mailbox' = [mailbox EXCEPT ![s] = Tail(@)]
    /\ IF streams[s].ctxDone
       THEN /\ streams' = [streams EXCEPT ![s].pc = "remove_lock",
                         ![s].ret = StatusError("Internal", "failed to send update")]
            /\ UNCHANGED sent
       ELSE /\ sent' = [sent EXCEPT ![s] = Append(@, Head(mailbox[s]))]
            /\ UNCHANGED streams
    /\ UNCHANGED <<storeVars, notifVars, lisVars, lctx, bc, mu, subscribers,
                   mboxClosed, bread, dropped, client>>

\* case <-ctx.Done(): return nil
StreamCtxDone(s) ==
    /\ streams[s].pc = "live"
    /\ streams[s].ctxDone
    /\ streams' = [streams EXCEPT ![s].pc = "remove_lock", ![s].ret = ReturnNil]
    /\ UNCHANGED <<storeVars, notifVars, lisVars, lctx, bc, mu, subscribers,
                   mailbox, mboxClosed, sent, bread, dropped, client>>

\* a removeSubscriber that leaves the map as it was
UnregisterNone(subs, s) == subs

\* a removeSubscriber that deletes every other mailbox
UnregisterOthers(subs, s) == subs \cap {s}

\* delete(s.subscribers, ch)
Unregister(subs, s) == subs \ {s}

\* removeSubscriber: s.mu.Lock(); delete(s.subscribers, ch); close(ch);
\* s.mu.Unlock(); the stream's context ends with the handler
StreamRemoveSubscriber(s) ==
    /\ streams[s].pc = "remove_lock"
    /\ CanLock
    /\ subscribers' = Unregister(subscribers, s)
    /\ mboxClosed' = [mboxClosed EXCEPT ![s] = TRUE]
    /\ streams' = [streams EXCEPT ![s].pc = "closed", ![s].ctxDone = TRUE]
    /\ UNCHANGED <<storeVars, notifVars, lisVars, lctx, bc, mu, mailbox, sent, bread,
                   dropped, client>>

\* the client goes away: the stream's context is cancelled
ClientDisconnect(s) ==
    /\ ~streams[s].ctxDone
    /\ streams[s].pc \in {"add_lock", "live"}
    /\ streams' = [streams EXCEPT ![s].ctxDone = TRUE]
    /\ UNCHANGED <<storeVars, notifVars, lisVars, lctx, bc, mu, subscribers,
                   mailbox, mboxClosed, sent, bread, dropped, client>>

\* the one client of the single-stream specifications
StreamSubs == {"s1"}

\* Server.GetTopScores, the unary RPC
RpcGetTopScores(c, limit, offset, dbOk) ==
    /\ calls[c].pc = "idle"
    /\ LET top == ServiceGetTopScores(scores, ClampLimit(limit), ClampOffset(offset), dbOk)
       IN  lastOp' = [Failed("GetTopScores", c, NoPlayer, 0,
                             IF top.err = "" THEN "" ELSE "Internal")
                         EXCEPT !.args = [reqLimit |-> limit, reqOffset |-> offset,
                                          limit |-> ClampLimit(limit),
                                          offset |-> ClampOffset(offset),
                                          cause |-> top.err],
                                !.rows = [i \in 1 .. Len(top.rows) |->
                                            ScoreEntry(top.rows[i])]]
    /\ UNCHANGED <<scores, now, calls, submitted>>
    /\ UNCHANGED <<notifVars, lisVars, lctx, hubVars, dropped, client>>

\* the limits and offsets clients ask for
RpcLimitInputs == {-1, 0, 1, 2, MaxLimit, MaxLimit + 1, 2 * MaxLimit}
RpcOffsetInputs == {-1, 0, 1}

\* reads through the RPC surface while rows are written
NextLimits ==
    \/ \E p \in Players : StoreUpsertScore(p, MaxScore)
    \/ \E c \in ValCallers, v \in RpcLimitInputs, off \in RpcOffsetInputs,
          dbOk \in BOOLEAN : RpcGetTopScores(c, v, off, dbOk)
    \/ \E s \in StreamSubs, v \in RpcLimitInputs, dbOk \in BOOLEAN, sendOk \in BOOLEAN :
          StreamStart(s, v, dbOk, sendOk)

SpecLimits == Init /\ [][NextLimits]_vars

\* a call of Service.GetTopScores with the caller's own limit and offset
ServiceGetTop(c, limit, offset, dbOk) ==
    /\ calls[c].pc = "idle"
    /\ LET top == ServiceGetTopScores(scores, limit, offset, dbOk)
       IN  lastOp' = [Failed("Service.GetTopScores", c, NoPlayer, 0, top.err)
                         EXCEPT !.args = [limit |-> limit, offset |-> offset,
                                          dbOk |-> dbOk],
                                !.rows = top.rows]
    /\ UNCHANGED <<scores, now, calls, submitted>>
    /\ UNCHANGED <<notifVars, lisVars, lctx, hubVars, dropped, client>>

\* reads through the service while rows are written
NextServiceTop ==
    \/ \E p \in Players : StoreUpsertScore(p, MaxScore)
    \/ \E c \in ValCallers, v \in RpcLimitInputs, off \in RpcOffsetInputs,
          dbOk \in BOOLEAN : ServiceGetTop(c, v, off, dbOk)

SpecServiceTop == Init /\ [][NextServiceTop]_vars

(***************************************************************************)
(* The running server: writes reach the table while the listener, the      *)
(* broadcaster and the streams run.                                        *)
(***************************************************************************)
StreamPlayers == {PlayerA}

\* a statement commits while the listener holds its connection, and the
\* trigger publishes
StreamWrite(o) ==
    /\ Listening
    /\ delivered < MaxCommits
    /\ scores' = o.table
    /\ Publish(o)
    /\ UNCHANGED <<now, calls, lastOp, submitted, lisVars, lctx, hubVars, dropped, client>>

StreamCommit ==
    \/ \E p \in StreamPlayers, s \in 0 .. MaxScore :
          StreamWrite(UpsertScoreStmt(scores, p, s, now))
    \/ \E p \in StreamPlayers : StreamWrite(DeleteScoreStmt(scores, p))
    \/ \E p \in StreamPlayers, v \in 0 .. MaxScore :
          StreamWrite(AdminUpdateStmt(scores, p, v))

\* one player's best score submitted and deleted, over and over
HubCommit ==
    \/ \E p \in StreamPlayers : StreamWrite(UpsertScoreStmt(scores, p, MaxScore, now))
    \/ \E p \in StreamPlayers : StreamWrite(DeleteScoreStmt(scores, p))

\* the listener while the database accepts its connection and its LISTEN
ListenerStep ==
    \/ ListenerLoop(TRUE)
    \/ ListenerListen(TRUE)
    \/ ListenerReceive
    \/ ListenerForward
    \/ ListenerDrop

BroadcastStep ==
    \/ BroadcastReceive
    \/ BroadcastCount
    \/ BroadcastRLock
    \/ BroadcastFanout

\* stream s2 is the one opened second
MayStart(s) == s = "s1" \/ streams["s1"].pc # "new"

StreamStep(s) ==
    \/ \E v \in LimitInputs, dbOk \in BOOLEAN, sendOk \in BOOLEAN :
          MayStart(s) /\ StreamStart(s, v, dbOk, sendOk)
    \/ StreamLock(s)
    \/ StreamAddSubscriber(s)
    \/ StreamForward(s)
    \/ StreamCtxDone(s)
    \/ StreamRemoveSubscriber(s)

NextStream ==
    \/ StreamCommit
    \/ ListenerStep
    \/ ListenerWaitError
    \/ BroadcastStep
    \/ \E s \in StreamSubs : StreamStep(s)
    \/ \E s \in StreamSubs : ClientDisconnect(s)

SpecStream == Init /\ [][NextStream]_vars

\* the goroutines are scheduled, and the client reads what is sent to it
FairStream ==
    /\ SpecStream
    /\ WF_vars(ListenerLoop(TRUE))
    /\ WF_vars(ListenerListen(TRUE))
    /\ WF_vars(ListenerReceive)
    /\ WF_vars(ListenerForward)
    /\ WF_vars(BroadcastStep)
    /\ \A s \in StreamSubs :
          /\ WF_vars(StreamLock(s))
          /\ WF_vars(StreamAddSubscriber(s))
          /\ WF_vars(StreamForward(s))
          /\ WF_vars(StreamCtxDone(s))
          /\ WF_vars(StreamRemoveSubscriber(s))

\* the listener with a database that may refuse it, and the shutdown
ListenerProc ==
    \/ \E ok \in BOOLEAN : ListenerLoop(ok)
    \/ ListenerSleep
    \/ \E ok \in BOOLEAN : ListenerListen(ok)
    \/ ListenerReceive
    \/ ListenerWaitError
    \/ ListenerForward
    \/ ListenerDrop
    \/ ListenerCancelled

NextListener ==
    \/ HubCommit
    \/ ListenerProc
    \/ MainLogError
    \/ BroadcastStep
    \/ BroadcastExit
    \/ Shutdown

SpecListener == Init /\ [][NextListener]_vars

\* the goroutines are scheduled; a cancelled context ends a wait; the
\* database may refuse the listener for ever
FairListener ==
    /\ SpecListener
    /\ WF_vars(\E ok \in BOOLEAN : ListenerLoop(ok))
    /\ WF_vars(ListenerSleep)
    /\ WF_vars(\E ok \in BOOLEAN : ListenerListen(ok))
    /\ WF_vars(ListenerReceive)
    /\ WF_vars(lctx /\ ListenerWaitError)
    /\ WF_vars(ListenerForward \/ ListenerDrop \/ ListenerCancelled)
    /\ WF_vars(MainLogError)
    /\ WF_vars(BroadcastStep \/ BroadcastExit)

\* one client while the server goes down, by a signal or on a server error
NextShutdown ==
    \/ HubCommit
    \/ ListenerStep
    \/ ListenerCancelled
    \/ BroadcastStep
    \/ BroadcastExit
    \/ \E s \in StreamSubs : StreamStep(s)
    \/ \E s \in StreamSubs : ClientDisconnect(s)
    \/ Shutdown
    \/ RunReturnsError

SpecShutdown == Init /\ [][NextShutdown]_vars

\* the goroutines are scheduled; the client may never read
FairShutdown ==
    /\ SpecShutdown
    /\ WF_vars(ListenerStep \/ ListenerCancelled)
    /\ WF_vars(BroadcastStep \/ BroadcastExit)
    /\ \A s \in StreamSubs :
          /\ WF_vars(StreamLock(s))
          /\ WF_vars(StreamAddSubscriber(s))
          /\ WF_vars(StreamCtxDone(s))
          /\ WF_vars(StreamRemoveSubscriber(s))

\* a payload that is not JSON
Malformed == [json |-> "invalid", members |-> << >>]

\* another database session runs NOTIFY scores_changes with a payload that
\* json.Unmarshal rejects
MalformedNotify ==
    /\ Listening
    /\ delivered < MaxCommits
    /\ pgQueue' = Append(pgQueue, [payload |-> Malformed, tag |-> delivered + 1,
                                   truth |-> NoTruth])
    /\ delivered' = delivered + 1
    /\ UNCHANGED <<storeVars, lisVars, lctx, hubVars, dropped, client>>

\* the listener fed by the trigger and by malformed payloads
NextMalformed ==
    \/ HubCommit
    \/ MalformedNotify
    \/ ListenerStep
    \/ BroadcastStep

SpecMalformed == Init /\ [][NextMalformed]_vars

\* an operation name the trigger never writes
ForeignOps == {"truncate", ""}

\* another database session runs NOTIFY scores_changes with a JSON object
\* whose op is none of insert, update, delete
ForeignNotify ==
    /\ Listening
    /\ delivered < MaxCommits
    /\ \E p \in StreamPlayers, s \in 0 .. MaxScore, op \in ForeignOps :
          pgQueue' = Append(pgQueue, [payload |-> JsonBuildObject(p, s, op),
                                      tag |-> delivered + 1, truth |-> NoTruth])
    /\ delivered' = delivered + 1
    /\ UNCHANGED <<storeVars, lisVars, lctx, hubVars, dropped, client>>

\* one client on the hub, fed by the trigger and by foreign payloads
NextForeign ==
    \/ HubCommit
    \/ ForeignNotify
    \/ ListenerStep
    \/ BroadcastStep
    \/ \E s \in StreamSubs : StreamStep(s)
    \/ \E s \in StreamSubs : ClientDisconnect(s)

SpecForeign == Init /\ [][NextForeign]_vars

\* two clients on the hub
NextHub ==
    \/ HubCommit
    \/ ListenerStep
    \/ BroadcastStep
    \/ \E s \in Subs : StreamStep(s)
    \/ \E s \in Subs : ClientDisconnect(s)

SpecHub == Init /\ [][NextHub]_vars

\* the goroutines are scheduled; a client may never read
FairHub ==
    /\ SpecHub
    /\ WF_vars(ListenerStep)
    /\ WF_vars(BroadcastStep)
    /\ \A s \in Subs :
          /\ WF_vars(StreamLock(s))
          /\ WF_vars(StreamAddSubscriber(s))
          /\ WF_vars(StreamCtxDone(s))
          /\ WF_vars(StreamRemoveSubscriber(s))

(***************************************************************************)
(* The Godot client (main.gd).                                             *)
(***************************************************************************)
\* a doubling with no ceiling
NextReconnectDelayUncapped(d) == d * 2

\* reconnect_delay = min(reconnect_delay * 2.0, MAX_RECONNECT_DELAY)
NextReconnectDelay(d) == Min(d * 2, MAX_RECONNECT_DELAY)

\* schedule_reconnect up to its await: a timer of reconnect_delay seconds
ScheduleReconnect(c) == [c EXCEPT !.timers = Append(@, c.reconnect_delay)]

\* connect_to_server: on success reset the delay and start the stream, else
\* schedule a reconnect
ConnectToServer(c, ok) ==
    IF ok
    THEN [c EXCEPT !.is_connected = TRUE,
                   !.reconnect_delay = InitialReconnectDelay,
                   !.stream_id = 1,
                   !.pc = "stream"]
    ELSE ScheduleReconnect([c EXCEPT !.pc = "down"])

\* handle_snapshot: the list is replaced by the snapshot's entries
handle_snapshot(lb, snapshot_entries) ==
    [i \in 1 .. Len(snapshot_entries) |->
        [player_name |-> snapshot_entries[i].player_name,
         score |-> snapshot_entries[i].score,
         updated_at |-> snapshot_entries[i].updated_at]]

\* a filter that keeps every entry
FilterOutNone(lb, player_name) == lb

\* leaderboard.filter(func(e): return e.get("player_name") != player_name)
FilterOut(lb, player_name) ==
    LET Keep(e) == e.player_name # player_name
    IN  SelectSeq(lb, Keep)

\* sort_custom(func(a, b): return a.score > b.score): the sort is not stable,
\* so entries with equal scores come out in any order
RECURSIVE SortCustom(_)
SortCustom(S) ==
    IF S = {} THEN {<< >>}
    ELSE UNION {{<<e>> \o r : r \in SortCustom(S \ {e})} :
                  e \in {x \in S : \A y \in S : ~(y.score > x.score)}}

\* if leaderboard.size() > 5: leaderboard.resize(5)
Resize(lb) == IF Len(lb) > DisplayLimit THEN SubSeq(lb, 1, DisplayLimit) ELSE lb

\* handle_upsert: the lists it can leave
handle_upsert(lb, entry) ==
    LET appended == Append(FilterOut(lb, entry.player_name),
                           [player_name |-> entry.player_name,
                            score |-> entry.score,
                            updated_at |-> entry.updated_at])
    IN  {Resize(l) : l \in SortCustom({appended[i] : i \in 1 .. Len(appended)})}

\* handle_delete
handle_delete(lb, entry) == FilterOut(lb, entry.player_name)

\* _on_stream_message: match kind
OnStreamMessage(lb, update) ==
    IF update.kind = "SNAPSHOT" THEN {handle_snapshot(lb, update.snapshot)}
    ELSE IF update.kind = "UPSERT" THEN handle_upsert(lb, update.changed[1])
    ELSE IF update.kind = "DELETE" THEN {handle_delete(lb, update.changed[1])}
    ELSE {lb}

\* _ready: connect_to_server
ClientReady(ok) ==
    /\ client.pc = "ready"
    /\ client' = ConnectToServer(client, ok)
    /\ UNCHANGED <<storeVars, notifVars, lisVars, lctx, hubVars, dropped>>

\* the stream's first message, the SNAPSHOT of the top the client asked for
ClientMessageSnapshot ==
    /\ client.pc = "stream"
    /\ LET top == ServiceGetTopScores(scores, ClampLimit(DisplayLimit), 0, TRUE)
       IN  \E l \in OnStreamMessage(client.leaderboard, SnapshotUpdate(top.rows)) :
              client' = [client EXCEPT !.leaderboard = l, !.pc = "live"]
    /\ UNCHANGED <<storeVars, notifVars, lisVars, lctx, hubVars, dropped>>

\* _on_stream_finished for the current stream
ClientStreamFinished ==
    /\ client.stream_id > 0
    /\ Len(client.timers) < MaxTimers
    /\ client' = ScheduleReconnect([client EXCEPT !.is_connected = FALSE,
                                                  !.pc = "down"])
    /\ UNCHANGED <<storeVars, notifVars, lisVars, lctx, hubVars, dropped>>

\* _on_stream_error for the current stream
ClientStreamError ==
    /\ client.stream_id > 0
    /\ Len(client.timers) < MaxTimers
    /\ client' = ScheduleReconnect([client EXCEPT !.is_connected = FALSE,
                                                  !.pc = "down"])
    /\ UNCHANGED <<storeVars, notifVars, lisVars, lctx, hubVars, dropped>>

\* a sequence without its i-th element
RemoveAt(q, i) == SubSeq(q, 1, i - 1) \o SubSeq(q, i + 1, Len(q))

\* schedule_reconnect after its await: double the delay, cancel the stream,
\* close the client and connect again
ClientTimerFires(i, ok) ==
    /\ i \in 1 .. Len(client.timers)
    /\ client' = ConnectToServer(
                    [client EXCEPT !.timers = RemoveAt(@, i),
                                   !.reconnect_delay = NextReconnectDelay(@),
                                   !.stream_id = 0],
                    ok)
    /\ UNCHANGED <<storeVars, notifVars, lisVars, lctx, hubVars, dropped>>

\* six names, and the score each of them submits: "A" and "B" tie
BoardPlayers == Players \cup {<<3>>, <<4>>, <<5>>}
BoardScore(p) == IF p \in {PlayerA, PlayerB} THEN 1 ELSE Len(p) + Head(p)

\* a statement commits and, when the client's stream is live, its delta is
\* notified, broadcast, sent and handled by the client
BoardWrite(o) ==
    /\ scores' = o.table
    /\ IF client.pc = "live" /\ o.emitted # << >>
       THEN \E l \in OnStreamMessage(client.leaderboard,
                                     DeltaUpdate(Unmarshal(Head(o.emitted)), now)) :
               client' = [client EXCEPT !.leaderboard = l]
       ELSE UNCHANGED client
    /\ UNCHANGED <<now, calls, lastOp, submitted, notifVars, lisVars, lctx,
                   hubVars, dropped>>

BoardCommit ==
    \/ \E p \in BoardPlayers :
          BoardWrite(UpsertScoreStmt(scores, p, BoardScore(p), now))
    \/ \E p \in BoardPlayers : BoardWrite(DeleteScoreStmt(scores, p))

\* the client beside the table, with a server that accepts every connection
NextBoard ==
    \/ BoardCommit
    \/ ClientReady(TRUE)
    \/ ClientMessageSnapshot
    \/ ClientStreamFinished
    \/ ClientStreamError
    \/ \E i \in 1 .. MaxTimers : ClientTimerFires(i, TRUE)

SpecBoard == Init /\ [][NextBoard]_vars

\* the deltas a stream can carry for the six names
ClientDeltas ==
    {DeltaUpdate([PlayerName |-> p, Score |-> BoardScore(p), Op |-> op], 0) :
        p \in BoardPlayers, op \in {"update", "delete"}}

\* _on_stream_message for a delta, whatever the table holds: a delta may be
\* one the list already reflects
ClientMessageDelta ==
    /\ client.pc = "live"
    /\ \E update \in ClientDeltas :
          \E l \in OnStreamMessage(client.leaderboard, update) :
              client' = [client EXCEPT !.leaderboard = l]
    /\ UNCHANGED <<storeVars, notifVars, lisVars, lctx, hubVars, dropped>>

\* the client handling snapshots of the table and deltas in any order
NextMessages ==
    \/ BoardCommit
    \/ ClientReady(TRUE)
    \/ ClientMessageSnapshot
    \/ ClientMessageDelta

SpecMessages == Init /\ [][NextMessages]_vars

\* one player's score submitted and deleted
ReconnectCommit ==
    \/ \E p \in StreamPlayers :
          BoardWrite(UpsertScoreStmt(scores, p, BoardScore(p), now))
    \/ \E p \in StreamPlayers : BoardWrite(DeleteScoreStmt(scores, p))

\* the client and a server that may refuse connections
NextReconnect ==
    \/ ReconnectCommit
    \/ \E ok \in BOOLEAN : ClientReady(ok)
    \/ ClientMessageSnapshot
    \/ ClientStreamFinished
    \/ ClientStreamError
    \/ \E i \in 1 .. MaxTimers, ok \in BOOLEAN : ClientTimerFires(i, ok)

SpecReconnect == Init /\ [][NextReconnect]_vars

(***************************************************************************)
(* Properties of the service.                                              *)
(***************************************************************************)
\* C2: SubmitScore returns applied = true exactly when the player had no row,
\* or a lower score, immediately before this call's upsert committed.
C2_AppliedIffImproved ==
    (lastOp.op = "SubmitScore" /\ lastOp.err = "") =>
        (lastOp.applied <=>
            \/ lastOp.old = {}
            \/ \E prior \in lastOp.old : lastOp.score > prior.score)

\* C3: a SubmitScore(p, s) that directly follows a completed SubmitScore(p, s),
\* with no write to p in between, returns applied = false, leaves the row
\* (score and updated_at) as it was and publishes no event.
C3_SecondSubmitIsNoOp ==
    (lastOp.op = "SubmitScore" /\ lastOp.err = "" /\ lastOp.repeat) =>
        /\ ~lastOp.applied
        /\ lastOp.new = lastOp.old
        /\ lastOp.old # {}
        /\ lastOp.emitted = << >>

\* the second of two identical submissions has completed after the clock moved
C3_Witness ==
    /\ lastOp.op = "SubmitScore" /\ lastOp.err = "" /\ lastOp.repeat
    /\ \E r \in lastOp.new : r.updated_at < now

RECURSIVE SetMax(_)
SetMax(S) ==
    LET x == CHOOSE y \in S : TRUE
    IN  IF S = {x} THEN x ELSE Max(x, SetMax(S \ {x}))

\* C4: whatever the order in which concurrent upserts on a player commit, the
\* player has exactly one row, holding the maximum of the scores written to it.
C4_AtomicUpsert ==
    \A p \in Players :
        /\ Cardinality(RowsOf(scores, p)) <= 1
        /\ submitted[p] = {} <=> RowsOf(scores, p) = {}
        /\ \A r \in RowsOf(scores, p) : r.score = SetMax(submitted[p])

\* a call that read "no row" committed after another caller's higher score
C4_Witness ==
    /\ lastOp.op = "SubmitScore" /\ lastOp.err = ""
    /\ ~lastOp.hadScore
    /\ \E prior \in lastOp.old : prior.score > lastOp.score
    /\ \A r \in RowsOf(scores, lastOp.player) : r.score = SetMax(submitted[lastOp.player])

(***************************************************************************)
(* Properties of the store.                                                *)
(***************************************************************************)
\* the alphabetical position of the three names: A, AB, B
NameRank(p) == IF p = PlayerA THEN 1 ELSE IF p = PlayerAB THEN 2 ELSE 3

\* the whole table as GetTopScores returns it
WholeTop == GetTopScoresQuery(scores, Cardinality(scores), 0)

\* C1: after a successful Upsert(p, s) the stored score of p is s if p had no
\* row and max(s, prior score) otherwise, so an upsert never lowers a score.
C1_BestScoreUpsert ==
    (lastOp.op = "UpsertScore" /\ lastOp.err = "") =>
        /\ Cardinality(RowsOf(scores, lastOp.player)) = 1
        /\ \A r \in RowsOf(scores, lastOp.player) :
              /\ lastOp.old = {} => r.score = lastOp.score
              /\ \A prior \in lastOp.old :
                    /\ r.score = Max(lastOp.score, prior.score)
                    /\ r.score >= prior.score

\* an upsert below the stored score has just committed
C1_Witness ==
    /\ lastOp.op = "UpsertScore" /\ lastOp.err = ""
    /\ \E prior \in lastOp.old : lastOp.score < prior.score

\* C5: GetTop(limit, offset) is the slice offset .. offset+limit-1 of the whole
\* table sorted by score descending then player name ascending: at most limit
\* entries, no player twice, equal scores in ascending name order.
C5_GetTopSlice ==
    LET n == Cardinality(scores)
    IN  /\ Len(WholeTop) = n
        /\ {WholeTop[i] : i \in 1 .. n} = scores
        /\ \A i, j \in 1 .. n :
              i < j =>
                 /\ WholeTop[i].player_name # WholeTop[j].player_name
                 /\ \/ WholeTop[i].score > WholeTop[j].score
                    \/ /\ WholeTop[i].score = WholeTop[j].score
                       /\ NameRank(WholeTop[i].player_name)
                            < NameRank(WholeTop[j].player_name)
        /\ \A limit \in 1 .. n + 1, offset \in 0 .. n + 1 :
              LET top == GetTopScoresQuery(scores, limit, offset)
              IN  /\ Len(top) = Min(limit, Max(0, n - offset))
                  /\ Len(top) <= limit
                  /\ \A i \in 1 .. Len(top) : top[i] = WholeTop[offset + i]
        /\ (n = 3 /\ \A r, q \in scores : r.score = q.score) =>
              [i \in 1 .. 3 |-> WholeTop[i].player_name]
                 = <<PlayerA, PlayerAB, PlayerB>>

\* all three players hold the same score
C5_Witness ==
    /\ Cardinality(scores) = 3
    /\ \A r, q \in scores : r.score = q.score

CommitNumbers == 1 .. MaxCommits

\* the commits whose delta a stream has sent to its client
SentTags(s) == {sent[s][i].tag : i \in 1 .. Len(sent[s])} \ {0}

\* the messages of a stream after its first
Deltas(s) == IF sent[s] = << >> THEN << >> ELSE Tail(sent[s])

TagSeq(q) == [i \in 1 .. Len(q) |-> q[i].tag]

RECURSIVE IsSubseq(_, _)
IsSubseq(a, b) ==
    IF a = << >> THEN TRUE
    ELSE IF b = << >> THEN FALSE
    ELSE IF Head(a) = Head(b) THEN IsSubseq(Tail(a), Tail(b))
    ELSE IsSubseq(a, Tail(b))

\* C7: a stream that got as far as subscribing has sent exactly one SNAPSHOT,
\* as its first message, and every later message is an UPSERT or a DELETE:
\* no second SNAPSHOT, and no delta before the SNAPSHOT.
C7_SnapshotFirst ==
    \A s \in Subs :
        /\ streams[s].pc \in {"subscribing", "add_lock", "live", "remove_lock"} =>
              sent[s] # << >>
        /\ \A i \in 1 .. Len(sent[s]) :
              IF i = 1 THEN sent[s][i].kind = "SNAPSHOT"
              ELSE sent[s][i].kind \in {"UPSERT", "DELETE"}

\* a stream that has ended after a non-empty snapshot and two deltas
C7_Witness ==
    \E s \in StreamSubs :
        /\ streams[s].pc = "closed"
        /\ Len(sent[s]) >= 3
        /\ sent[s][1].snapshot # << >>

\* a delta says what its commit did: UPSERT{p, committed score} or DELETE{p}
DeltaMatches(m) ==
    /\ m.kind = m.truth.kind
    /\ Len(m.changed) = 1
    /\ m.changed[1].player_name = m.truth.player
    /\ m.kind = "UPSERT" => m.changed[1].score = m.truth.score

\* commit k was published to the listener's connection with s registered
Published(k, s) == k \in Tags(pgQueue) /\ s \in subscribers

\* what takes a commit's delta away from s: the listener's connection is
\* lost, the events channel or the mailbox is full, or the client has gone
Lost(k, s) ==
    \/ k \in dropped["conn"] \cup dropped["chan"] \cup dropped[s]
    \/ streams[s].ctxDone

\* C8: a score-changing commit published while a stream is registered
\* reaches that stream's client exactly once, as UPSERT{p, committed score}
\* or DELETE{p}, unless the connection is lost, the events channel or the
\* mailbox is full, or the client goes away.
C8_EndToEndDelivery ==
    /\ [](\A s \in StreamSubs :
            \A i \in 1 .. Len(Deltas(s)) :
                /\ DeltaMatches(Deltas(s)[i])
                /\ \A j \in 1 .. Len(Deltas(s)) :
                      Deltas(s)[i].tag = Deltas(s)[j].tag => i = j)
    /\ \A k \in CommitNumbers, s \in StreamSubs :
          Published(k, s) ~> (k \in SentTags(s) \/ Lost(k, s))

\* a client has been sent an UPSERT with the best score and then a DELETE
C8_Witness ==
    \E s \in StreamSubs :
        \E i, j \in 1 .. Len(sent[s]) :
            /\ i < j
            /\ sent[s][i].kind = "UPSERT"
            /\ sent[s][i].changed[1].score = MaxScore
            /\ sent[s][j].kind = "DELETE"
            /\ sent[s][j].changed[1].player_name = PlayerA

\* C9: one fan-out puts the update in every registered mailbox that has room
\* and leaves a full mailbox as it is; a broadcast always completes, clients
\* reading or not; addSubscriber and removeSubscriber always complete.
C9_SlowSubscriber ==
    /\ [][(bc.pc = "fanout" /\ bc'.pc = "recv") =>
            \A s \in Subs :
                IF s \in subscribers /\ Len(mailbox[s]) < MailboxCap
                THEN mailbox'[s] = Append(mailbox[s], bc.update)
                ELSE mailbox'[s] = mailbox[s]]_vars
    /\ (bc.pc # "recv") ~> (bc.pc = "recv")
    /\ \A s \in Subs : (streams[s].pc = "add_lock") ~> (streams[s].pc = "live")
    /\ \A s \in Subs : (streams[s].pc = "remove_lock") ~> (streams[s].pc = "closed")

\* an update was dropped for a subscriber with a full mailbox and reached
\* the other one
C9_Witness ==
    \E s, r \in Subs :
        /\ s # r
        /\ Len(mailbox[s]) = MailboxCap
        /\ \E k \in dropped[s] :
              k \in Tags(mailbox[r]) \cup SentTags(r)

\* C10: the deltas a stream sends are a subsequence of the changes the
\* broadcaster read, and the deltas for one player are in commit order.
C10_Ordering ==
    \A s \in Subs :
        /\ IsSubseq(TagSeq(Deltas(s)), bread)
        /\ \A i, j \in 1 .. Len(Deltas(s)) :
              (/\ i < j
               /\ Deltas(s)[i].changed[1].player_name
                    = Deltas(s)[j].changed[1].player_name)
              => Deltas(s)[i].tag < Deltas(s)[j].tag

\* one stream has sent two deltas while the other, slower, lost one
C10_Witness ==
    \E s, r \in Subs :
        /\ s # r
        /\ Len(sent[s]) >= 3
        /\ dropped[r] # {}
        /\ Len(sent[r]) >= 2

(***************************************************************************)
(* The trigger's emission rule and DeleteScore (queries.sql, migration     *)
(* 0002).                                                                  *)
(***************************************************************************)
\* what the listener's ScoreChange would hold for a published payload
ChangeOf(payload) ==
    [PlayerName |-> Unmarshal(payload).PlayerName,
     Score |-> Unmarshal(payload).Score,
     Op |-> Unmarshal(payload).Op]

InvalidArgument == {"ErrInvalidPlayerName", "ErrInvalidScore"}

\* C13: SubmitScore, GetPlayerRank and DeleteScore reject a name of length 0
\* or above 20, and SubmitScore rejects a negative score, each with an
\* invalid-argument error; names of length 1 to 20 and score 0 are not
\* rejected; a rejected call leaves the table, the published notifications
\* and the call's own state as they were, and returns nothing from the store.
C13_Validation ==
    [][(/\ lastOp' # lastOp
        /\ lastOp'.op \in {"SubmitScore", "GetPlayerRank", "DeleteScore"}
        /\ lastOp'.by \in Callers) =>
          LET r == lastOp'
              nameOk == Len(r.player) >= 1 /\ Len(r.player) <= 20
              scoreOk == r.op # "SubmitScore" \/ r.score >= 0
          IN  /\ ~nameOk => r.err = "ErrInvalidPlayerName"
              /\ (nameOk /\ ~scoreOk) => r.err = "ErrInvalidScore"
              /\ (nameOk /\ scoreOk) => r.err \notin InvalidArgument
              /\ r.err \in InvalidArgument =>
                    /\ scores' = scores
                    /\ UNCHANGED <<notifVars, calls, submitted>>
                    /\ r = Failed(r.op, r.by, r.player, r.score, r.err)]_vars

\* a 21-character name has just been rejected while the table holds a row
\* with a 20-character name and score 0
C13_Witness ==
    /\ lastOp.err = "ErrInvalidPlayerName"
    /\ Len(lastOp.player) = 21
    /\ \E r \in scores : Len(r.player_name) = 20 /\ r.score = 0

(***************************************************************************)
(* Limits at the RPC surface (Server.GetTopScores, StreamLeaderboard).     *)
(***************************************************************************)
\* the limit a request for v should get: 10 by default, at most 100
ExpectedLimit(v) == IF v <= 0 THEN 10 ELSE IF v > 100 THEN 100 ELSE v

NoDup(q) == \A i, j \in 1 .. Len(q) : q[i] = q[j] => i = j

\* the change the listener holds for its send, if any
Held == IF lis.pc = "send" THEN << lis.change.tag >> ELSE << >>

\* C15: a notification is put on the events channel at most once, and a
\* change the broadcaster read is put at most once into a mailbox, so no
\* stream is sent the same change twice, also after the listener reconnects.
C15_AtMostOnce ==
    /\ NoDup(bread \o TagSeq(changeChan) \o Held)
    /\ \A s \in Subs : NoDup(TagSeq(Deltas(s)) \o TagSeq(mailbox[s]))

\* after a lost connection dropped a notification, a later commit's delta
\* was sent
C15_Witness ==
    \E s \in StreamSubs :
        \E d \in dropped["conn"], k \in SentTags(s) : k > d

\* C16: when the listener leaves its send with the events channel full, the
\* change it held is dropped: the channel keeps the changes it had in the
\* order it had them, the notifications still pending on the connection are
\* kept, and the listener is back waiting on the same connection; with room
\* the change goes to the back of the channel.
C16_FullEventsChannel ==
    [][(lis.pc = "send" /\ lis'.pc # "send") =>
          IF Len(changeChan) >= ChangeChanCap
          THEN /\ changeChan' = changeChan
               /\ lis.change.tag \in dropped'["chan"]
               /\ pgQueue' = pgQueue
               /\ lis'.pc = "wait"
               /\ lis'.backoff = lis.backoff
          ELSE /\ changeChan' = Append(changeChan, lis.change)
               /\ dropped' = dropped]_vars

\* a change was dropped at the full channel, which still holds the earlier
\* one, and the listener waits with the next notification pending
C16_Witness ==
    /\ dropped["chan"] # {}
    /\ Len(changeChan) = ChangeChanCap
    /\ \A i \in 1 .. Len(changeChan) :
          \A d \in dropped["chan"] : changeChan[i].tag < d
    /\ lis.pc = "wait"
    /\ pgQueue # << >>

(***************************************************************************)
(* The listener's retries and shutdown (Listener.listen).                  *)
(***************************************************************************)
\* C17: the retry delay starts at 1 s, is the delay slept after a failed
\* acquire or LISTEN, doubles after each such sleep up to 60 s (1, 2, 4, 8,
\* 16, 32, 60, 60, ...), is 1 s again once LISTEN succeeds and so at every
\* notification consumed, changes at no other step, and is always within
\* 1 s .. 60 s.
C17_Backoff ==
    /\ lis.backoff = 1
    /\ [](lis.backoff \in {1, 2, 4, 8, 16, 32, 60})
    /\ [][/\ (lis.pc = "sleep" /\ lis'.pc = "loop") =>
                lis'.backoff = (IF 2 * lis.backoff > 60 THEN 60 ELSE 2 * lis.backoff)
          /\ (lis.pc = "acquired" /\ lis'.pc = "wait") => lis'.backoff = 1
          /\ (lis.pc = "wait" /\ lis'.pc = "send") => lis'.backoff = 1
          /\ lis'.backoff # lis.backoff =>
                \/ lis.pc = "sleep"
                \/ lis.pc = "acquired" /\ lis'.pc = "wait"]_vars

\* the listener sleeps with the delay at its ceiling
C17_Witness ==
    /\ lis.pc = "sleep"
    /\ lis.backoff = 60

\* C18: after a failed acquire, a failed LISTEN or a failed read the listener
\* starts its next connection attempt only out of its sleep.
C18_RetryAfterDelay ==
    [][(~lctx /\ lis'.pc = "loop" /\ lis.pc # "loop") => lis.pc = "sleep"]_vars

\* C19: once the context is cancelled the listener eventually has closed the
\* events channel and the errors channel and holds no connection, on every
\* path, and nothing is sent on a channel after it is closed.
C19_ListenerShutdown ==
    /\ lctx ~> (/\ chanClosed
                /\ errClosed
                /\ lis.pc \notin {"acquired", "wait", "send"})
    /\ [][/\ chanClosed => Len(changeChan') <= Len(changeChan)
          /\ errClosed => Len(errChan') <= Len(errChan)]_vars

\* C20: once the events channel is closed the broadcaster's loop ends, and
\* every mailbox that was registered when the channel was closed is closed.
C20_BroadcasterExit ==
    /\ chanClosed ~> (bc.pc = "exited")
    /\ \A s \in Subs : (chanClosed /\ s \in lis.atClose) ~> mboxClosed[s]

\* C21: the registry holds exactly the mailboxes of the streams that are live
\* (from addSubscriber until the deferred removeSubscriber has run): a stream
\* that is still starting is not registered, and a stream that has ended, by
\* a client disconnect or a send error, is not registered and none of the
\* registered mailboxes is closed.
C21_RegistryConsistency ==
    /\ subscribers = {s \in Subs : streams[s].pc \in {"live", "remove_lock"}}
    /\ \A s \in Subs :
          /\ streams[s].pc \in {"new", "subscribing", "add_lock"} =>
                s \notin subscribers
          /\ streams[s].pc = "closed" => s \notin subscribers
          /\ mboxClosed[s] => s \notin subscribers

\* one stream has been registered and has ended while the other is registered
C21_Witness ==
    \E s \in Subs, r \in Subs :
        /\ s # r
        /\ streams[s].pc = "closed" /\ mboxClosed[s]
        /\ r \in subscribers

\* C22: a stream whose snapshot read fails, or whose snapshot cannot be sent,
\* goes from starting straight to closed and returns an Internal status; its
\* mailbox is never registered and nothing, so no delta, is ever sent on it.
C22_SnapshotFailure ==
    /\ [](\A s \in Subs :
            (streams[s].pc = "closed" /\ sent[s] = << >>) =>
                /\ streams[s].ret.code = "Internal"
                /\ streams[s].ret.msg \in {"failed to get initial snapshot",
                                           "failed to send snapshot"}
                /\ s \notin subscribers
                /\ ~mboxClosed[s]
                /\ mailbox[s] = << >>)
    /\ [][\A s \in Subs :
            /\ (streams[s].pc = "new" /\ streams'[s].pc # "new") =>
                  IF streams'[s].pc = "closed"
                  THEN sent'[s] = << >> /\ streams'[s].ret.code = "Internal"
                  ELSE /\ streams'[s].pc = "subscribing"
                       /\ Len(sent'[s]) = 1 /\ sent'[s][1].kind = "SNAPSHOT"
            /\ streams[s].pc = "closed" =>
                  /\ streams'[s] = streams[s]
                  /\ sent'[s] = sent[s]
                  /\ (s \in subscribers') = (s \in subscribers)]_vars

\* one stream failed to read its snapshot while the other has been sent a delta
C22_Witness ==
    \E s \in Subs, r \in Subs :
        /\ streams[s].pc = "closed"
        /\ streams[s].ret.msg = "failed to get initial snapshot"
        /\ Len(sent[r]) >= 2

\* the entries a client should be shown for the rows of a table
ShownTop(tbl, k) ==
    LET top == GetTopScoresQuery(tbl, k, 0)
    IN  [i \in 1 .. Len(top) |->
           [player_name |-> top[i].player_name, score |-> top[i].score,
            updated_at |-> FormatRFC3339(top[i].updated_at)]]

\* C23: the SNAPSHOT of a stream that starts, a reconnecting client's
\* included, is the top K of the table as committed when the stream reads it,
\* so it holds every commit completed before the stream started, whatever the
\* earlier stream of that client was or was not sent.
C23_ReconnectResync ==
    [][\A s \in Subs :
         (streams[s].pc = "new" /\ streams'[s].pc = "subscribing") =>
            /\ Len(sent'[s]) = 1
            /\ sent'[s][1].kind = "SNAPSHOT"
            /\ \E v \in LimitInputs :
                  sent'[s][1].snapshot = ShownTop(scores, ExpectedLimit(v))
            /\ scores' = scores]_vars

\* the first stream was shown an empty board and ended without a delta; the
\* second stream's snapshot holds the row committed since
C23_Witness ==
    /\ streams["s1"].pc = "closed"
    /\ Len(sent["s1"]) = 1
    /\ sent["s1"][1].snapshot = << >>
    /\ Len(sent["s2"]) >= 1
    /\ Len(sent["s2"][1].snapshot) = 1
    /\ sent["s2"][1].snapshot[1].score = MaxScore

\* C24: every update dropped at a subscriber's full mailbox is counted on
\* that subscriber's drop counter, which at any time equals the number of
\* updates dropped for that subscriber.
C24_DropCounter ==
    \A s \in Subs : DropCounter(s) = Cardinality(dropped[s])

\* the listener takes a notification it cannot parse off its connection
MalformedReceived ==
    /\ lis.pc = "wait"
    /\ pgQueue # << >>
    /\ Head(pgQueue).payload = Malformed
    /\ pgQueue' = Tail(pgQueue)

\* C25: a malformed payload leaves the listener waiting on the same
\* connection with its backoff as it was and puts nothing on the events
\* channel, and the next well-formed notification on that connection is
\* taken and forwarded.
C25_MalformedKeepsConnection ==
    /\ [][MalformedReceived =>
            /\ lis' = lis
            /\ Listening'
            /\ changeChan' = changeChan
            /\ chanClosed' = chanClosed]_vars
    /\ [][(/\ lis.pc = "wait" /\ pgQueue # << >>
           /\ Head(pgQueue).payload # Malformed
           /\ pgQueue' = Tail(pgQueue)) =>
              /\ lis'.pc = "send"
              /\ lis'.change.tag = Head(pgQueue).tag
              /\ lis'.backoff = lis.backoff]_vars
    /\ [][(lis.pc = "send" /\ lis'.pc = "wait" /\ Len(changeChan) < ChangeChanCap) =>
              changeChan' = Append(changeChan, lis.change)]_vars

\* a change is on the events channel that was notified after a malformed
\* payload had been dropped
C25_Witness ==
    \E d \in dropped["parse"] :
        \E i \in 1 .. Len(changeChan) : changeChan[i].tag > d

\* C26: when the listener drops a malformed payload and the errors channel
\* has room, an error is put on the errors channel.
C26_MalformedEmitsError ==
    [][(MalformedReceived /\ Len(errChan) < ErrChanCap) =>
          Len(errChan') = Len(errChan) + 1]_vars

\* C27: GetPlayerRank returns no rank for a player who has no row when the
\* rank is computed: the rank query reports not-found for an absent player
\* and the service answers PlayerNotFound, also when the row is deleted
\* between the service's lookup and its rank query.
C27_NoRankForAbsent ==
    [][\A c \in Callers :
         (calls[c].pc = "rank" /\ calls'[c].pc = "idle"
            /\ RowsOf(scores, calls[c].player) = {}) =>
               /\ lastOp'.err = "ErrPlayerNotFound"
               /\ lastOp'.rank = 0]_vars

\* C28: players whose scores are equal get the same rank.
C28_TiesShareRank ==
    \A r \in scores, q \in scores :
        r.score = q.score =>
            GetPlayerRankQuery(scores, r.player_name)
              = GetPlayerRankQuery(scores, q.player_name)

\* the names and scores of a list of entries, in order
NamesAndScores(q) == [i \in 1 .. Len(q) |-> <<q[i].player_name, q[i].score>>]

\* C29: once the client has handled the SNAPSHOT, and with every delta
\* delivered, the client's list is the table's current top 5 in the order
\* score descending, player ascending.
C29_ClientShowsTop5 ==
    client.pc = "live" =>
        NamesAndScores(client.leaderboard)
          = NamesAndScores(GetTopScoresQuery(scores, DisplayLimit, 0))

Last(q) == q[Len(q)]

\* C30: the client's delay is always one of 2, 4, 8, 16, 30 seconds; a
\* reconnect scheduled after a failed connect, a stream error or a stream end
\* waits the current delay; a timer that fires doubles the delay up to 30,
\* and a connection that succeeds resets it to 2.
C30_ClientReconnect ==
    /\ [](/\ client.reconnect_delay \in {2, 4, 8, 16, 30}
          /\ \A i \in 1 .. Len(client.timers) :
                client.timers[i] \in {2, 4, 8, 16, 30})
    /\ [][/\ Len(client'.timers) = Len(client.timers) + 1 =>
                /\ Last(client'.timers) = client.reconnect_delay
                /\ client'.reconnect_delay = client.reconnect_delay
          /\ Len(client'.timers) = Len(client.timers) - 1 =>
                /\ client'.reconnect_delay = 2
                /\ client'.is_connected
                /\ client'.pc = "stream"
          /\ (/\ Len(client'.timers) = Len(client.timers)
              /\ \/ client'.timers # client.timers
                 \/ client'.reconnect_delay # client.reconnect_delay) =>
                /\ client'.reconnect_delay
                     = (IF 2 * client.reconnect_delay > 30 THEN 30
                        ELSE 2 * client.reconnect_delay)
                /\ Last(client'.timers) = client'.reconnect_delay
          /\ client'.pc = "down" => client'.timers # << >>]_vars

\* after failed connections in a row the client waits at the ceiling
C30_Witness ==
    /\ client.reconnect_delay = 30
    /\ client.timers = <<30>>
    /\ client.pc = "down"

\* C31: an upsert on an existing row sets updated_at to the current time
\* exactly when the submitted score is strictly greater than the stored one
\* and leaves it unchanged otherwise; so over a sequence of upserts a
\* player's updated_at never moves backwards and changes exactly when the
\* score changes, and no other player's row is touched.
C31_UpdatedAt ==
    [][(lastOp'.op = "UpsertScore" /\ lastOp'.err = "" /\ now' # now) =>
         /\ \A prior \in RowsOf(scores, lastOp'.player) :
               /\ Cardinality(RowsOf(scores', lastOp'.player)) = 1
               /\ \A r \in RowsOf(scores', lastOp'.player) :
                     /\ r.updated_at = (IF lastOp'.score > prior.score THEN now'
                                        ELSE prior.updated_at)
                     /\ r.updated_at >= prior.updated_at
                     /\ (r.updated_at # prior.updated_at) = (r.score # prior.score)
         /\ \A q \in Players \ {lastOp'.player} :
               RowsOf(scores', q) = RowsOf(scores, q)]_vars

\* a row has been stamped by a raise, and a later upsert that did not raise
\* the score has left the stamp alone
C31_Witness ==
    /\ lastOp.op = "UpsertScore" /\ lastOp.err = ""
    /\ \E prior \in lastOp.old, r \in lastOp.new :
          /\ lastOp.score <= prior.score
          /\ prior.updated_at > 1
          /\ r.updated_at = prior.updated_at
          /\ now > prior.updated_at

\* C32: a stream registers its mailbox only after its snapshot has been read
\* and sent; a fan-out reaches only the mailboxes registered at that moment
\* and every change is fanned out once, so a change committed after the
\* snapshot read and fanned out before the registration is in neither the
\* stream's snapshot nor its deltas.
C32_SnapshotWindow ==
    /\ [](\A s \in Subs :
            /\ s \in subscribers =>
                  sent[s] # << >> /\ sent[s][1].kind = "SNAPSHOT"
            /\ streams[s].pc \in {"new", "subscribing", "add_lock"} =>
                  s \notin subscribers /\ mailbox[s] = << >>)
    /\ [](/\ NoDup(bread)
          /\ \A i \in 1 .. Len(bread) :
                bread[i] \notin Tags(changeChan) \cup Tags(pgQueue)
          /\ Tags(pgQueue) \cap Tags(changeChan) = {})
    /\ [][\A s \in Subs :
            /\ (bc.pc = "fanout" /\ bc'.pc = "recv" /\ s \notin subscribers) =>
                  mailbox'[s] = mailbox[s]
            /\ mailbox'[s] # mailbox[s] =>
                  \/ mailbox[s] # << >> /\ mailbox'[s] = Tail(mailbox[s])
                  \/ /\ bc.pc = "fanout"
                     /\ mailbox'[s] = Append(mailbox[s], bc.update)]_vars

\* the stream was sent an empty snapshot and nothing else, the row committed
\* since has gone through the listener and the broadcaster, nothing was
\* dropped and nothing is on its way: the registered client will not hear
\* of the row
C32_Witness ==
    \E s \in StreamSubs :
        /\ streams[s].pc = "live" /\ ~streams[s].ctxDone
        /\ s \in subscribers
        /\ Len(sent[s]) = 1 /\ sent[s][1].snapshot = << >>
        /\ scores # {}
        /\ bread = <<1>>
        /\ delivered = 1
        /\ bc.pc = "recv"
        /\ pgQueue = << >> /\ changeChan = << >> /\ mailbox[s] = << >>
        /\ \A w \in DropPlaces : dropped[w] = {}

\* the broadcaster takes a change off the events channel
BroadcasterTakes ==
    /\ bc.pc = "recv"
    /\ changeChan # << >>
    /\ changeChan' = Tail(changeChan)

\* C33: the broadcaster turns an insert or an update into an UPSERT and a
\* delete into a DELETE, with the change's player and score as they are; a
\* change with any other op produces no update, leaves every mailbox as it
\* is and leaves the loop ready for the next change; what a fan-out puts in
\* a mailbox is the update built from the change.
C33_KindMapping ==
    /\ [][BroadcasterTakes =>
            LET change == Head(changeChan)
            IN  IF change.Op \in {"insert", "update", "delete"}
                THEN /\ bc'.pc = "rlock1"
                     /\ bc'.update.kind =
                           (IF change.Op = "delete" THEN "DELETE" ELSE "UPSERT")
                     /\ Len(bc'.update.changed) = 1
                     /\ bc'.update.changed[1].player_name = change.PlayerName
                     /\ bc'.update.changed[1].score = change.Score
                     /\ bc'.update.tag = change.tag
                ELSE /\ bc' = bc
                     /\ mailbox' = mailbox
                     /\ sent' = sent]_vars
    /\ [][\A s \in Subs :
            (Len(mailbox'[s]) > Len(mailbox[s])) =>
                /\ bc.pc = "fanout"
                /\ mailbox'[s] = Append(mailbox[s], bc.update)
                /\ bc.update.kind \in {"UPSERT", "DELETE"}]_vars
    /\ [](\A d \in dropped["op"] :
            \A s \in Subs :
               /\ \A i \in 1 .. Len(mailbox[s]) : mailbox[s][i].tag # d
               /\ \A i \in 1 .. Len(sent[s]) : sent[s][i].tag # d)

\* a change with an unknown op was skipped while the client was registered,
\* and a later change reached the client as an UPSERT
C33_Witness ==
    \E d \in dropped["op"] :
        \E s \in subscribers :
            /\ Len(sent[s]) >= 2
            /\ sent[s][1].snapshot = << >>
            /\ \E i \in 2 .. Len(sent[s]) :
                  /\ sent[s][i].tag > d
                  /\ sent[s][i].kind = "UPSERT"
                  /\ sent[s][i].changed[1].player_name = PlayerA
                  /\ sent[s][i].changed[1].score = MaxScore

\* C34: Service.GetTopScores clamps its arguments itself (a limit <= 0
\* becomes the default, a limit above MAX_LIMIT becomes MAX_LIMIT, a
\* negative offset becomes 0) and delegates to the store: while the store
\* answers, the call does not fail and returns the rows of the clamped page.
C34_ServiceClamps ==
    (lastOp.op = "Service.GetTopScores" /\ lastOp.args.dbOk) =>
        /\ lastOp.err = ""
        /\ lastOp.rows = GetTopScoresQuery(scores, ClampLimit(lastOp.args.limit),
                                           ClampOffset(lastOp.args.offset))

\* C35: the client's list, re-sorted after an UPSERT, is in the server's
\* order: score descending, and player name ascending among equal scores.
C35_ClientOrder ==
    client.pc = "live" =>
        \A i, j \in 1 .. Len(client.leaderboard) :
            i < j => OrderBefore(client.leaderboard[i], client.leaderboard[j])

\* the entries of a list, and the players it shows
Entries(lb) == {lb[i] : i \in 1 .. Len(lb)}
Shown(lb) == {lb[i].player_name : i \in 1 .. Len(lb)}

\* the lists a message can leave when it is handled a second time
HandledTwice(lb, update) ==
    UNION {OnStreamMessage(l, update) : l \in OnStreamMessage(lb, update)}

C37_CancelCloses ==
    /\ \A s \in StreamSubs :
          (streams[s].pc = "live" /\ streams[s].ctxDone)
             ~> (streams[s].pc = "closed" /\ s \notin subscribers /\ mboxClosed[s])
    /\ [][\A s \in StreamSubs :
            streams[s].pc = "closed" =>
                /\ streams'[s].pc = "closed"
                /\ sent'[s] = sent[s]
                /\ s \notin subscribers']_vars

\* the stream returned through ctx.Done() with an update waiting in its
\* mailbox, and is closed
C37_Witness ==
    \E s \in StreamSubs :
        /\ streams[s].pc = "closed"
        /\ streams[s].ret = ReturnNil
        /\ mailbox[s] # << >>
        /\ s \notin subscribers
        /\ mboxClosed[s]

\* a step in which the database fails the listener: Acquire, LISTEN or
\* WaitForNotification returns an error while the context is not cancelled
ListenerFails ==
    /\ ~lctx
    /\ \/ lis.pc \in {"loop", "acquired"} /\ lis'.pc = "sleep"
       \/ lis.pc = "wait" /\ lis'.pc = "loop"

\* C38: the listener ends only on a cancelled context; a failed Acquire or
\* LISTEN leads through the sleep back to the top of the loop and a failed
\* read leads there at once; if from some point on the database no longer
\* fails it, the listener comes to be listening for good unless it is
\* cancelled, and a notification that reaches the listening connection is
\* put on the events channel unless the channel stays full, the connection
\* is lost or the context is cancelled.
C38_RetriesForever ==
    /\ [](lis.pc \in {"stopped", "returned"} => lctx)
    /\ [][ListenerFails => lis'.pc \in {"sleep", "loop"}]_vars
    /\ (lis.pc = "sleep") ~> (lis.pc = "loop")
    /\ (<>[][~ListenerFails]_vars) => <>[](Listening \/ lctx)
    /\ \A k \in CommitNumbers :
          (k \in Tags(pgQueue)) ~>
              \/ k \in Tags(changeChan) \/ \E i \in 1 .. Len(bread) : bread[i] = k
              \/ k \in dropped["chan"] \cup dropped["conn"]
              \/ lctx

\* the listener is listening and has forwarded a change after the database
\* had refused it
C38_Witness ==
    /\ ~lctx
    /\ lis.pc = "wait"
    /\ changeChan # << >>
    /\ errChan # << >>
    /\ Head(errChan) \in {"acquire connection", "LISTEN command"}

\* C39: the broadcaster never sends on a closed mailbox. A mailbox is taken
\* out of the registry and closed in one step that holds the lock alone, and
\* it is closed once; the broadcaster puts updates only in mailboxes that are
\* in the registry and open, while it holds the read lock.
C39_NoSendOnClosed ==
    /\ [](/\ bc.pc # "panic"
          /\ bc.pc = "fanout" => (mu.readers > 0 /\ mu.writer = "none")
          /\ \A s \in Subs :
                /\ mboxClosed[s] => s \notin subscribers
                /\ streams[s].pc = "remove_lock" => ~mboxClosed[s])
    /\ [][\A s \in Subs :
            /\ (mboxClosed'[s] /\ ~mboxClosed[s]) =>
                  /\ mu.readers = 0 /\ mu.writer = "none"
                  /\ s \in subscribers /\ s \notin subscribers'
            /\ mboxClosed[s] => mboxClosed'[s]
            /\ (s \in subscribers /\ s \notin subscribers') => mboxClosed'[s]
            /\ Len(mailbox'[s]) > Len(mailbox[s]) =>
                  /\ bc.pc = "fanout"
                  /\ mu.readers > 0
                  /\ s \in subscribers
                  /\ ~mboxClosed[s]]_vars

\* the broadcaster is in its fan-out with the read lock; one stream has
\* unregistered and closed its mailbox and the other waits for the lock to
\* do the same
C39_Witness ==
    \E s, r \in Subs :
        /\ s # r
        /\ bc.pc = "fanout"
        /\ mu.readers > 0
        /\ streams[s].pc = "closed" /\ mboxClosed[s]
        /\ Len(sent[s]) >= 1
        /\ streams[r].pc = "remove_lock"
        /\ r \in subscribers

\* the events of a step: what the statement it completed has published
StepEvents == IF lastOp' # lastOp THEN lastOp'.emitted ELSE << >>

\* the events of a sequence that name player p
EventsFor(ev, p) ==
    LET Names(e) == Unmarshal(e).PlayerName = p
    IN  SelectSeq(ev, Names)

\* event e says what the table holds for p
Describes(e, tbl, p) ==
    LET c == Unmarshal(e)
    IN  IF RowsOf(tbl, p) = {}
        THEN c.Op = "delete"
        ELSE /\ c.Op \in {"insert", "update"}
             /\ \A r \in RowsOf(tbl, p) : r.score = c.Score

\* the score stored for p, if any
StoredScore(tbl, p) == {r.score : r \in RowsOf(tbl, p)}

\* C40: the last event published for a player describes the player's
\* committed row. Every step that publishes events for p leaves p's row as
\* the last of them says (insert or update with the stored score, or delete
\* and no row), and a step that publishes none for p leaves p's stored score
\* and the existence of p's row as they were; so with no event ever
\* published for p there is no row of p.
C40_LastEventIsState ==
    /\ [][\A p \in SvcNameInputs :
            LET evs == EventsFor(StepEvents, p)
            IN  IF evs # << >>
                THEN Describes(evs[Len(evs)], scores', p)
                ELSE StoredScore(scores', p) = StoredScore(scores, p)]_vars
    /\ [](\A i \in 1 .. Len(lastOp.emitted) :
            i = Len(lastOp.emitted) =>
               Describes(lastOp.emitted[i], scores,
                         Unmarshal(lastOp.emitted[i]).PlayerName))

\* an administrator has lowered a player's score while a SubmitScore for
\* that player is between its read and its upsert, and the update event
\* with the lower score was published
C40_Witness ==
    /\ lastOp.op = "AdminUpdate"
    /\ Len(lastOp.emitted) = 1
    /\ Unmarshal(lastOp.emitted[1]).Op = "update"
    /\ Unmarshal(lastOp.emitted[1]).Score = 0
    /\ \E c \in Callers :
          /\ calls[c].pc = "upsert"
          /\ calls[c].player = lastOp.player
    /\ StoredScore(scores, lastOp.player) = {0}
====
